---- MODULE Spec2Model ----
(***************************************************************************)
(* Credential lifecycle of the notes application: sign-up, sign-in and     *)
(* token refresh over a user store, with JWT access/refresh tokens.        *)
(*                                                                         *)
(* Time is counted in seconds (the unit of the iat/exp claims).  E-mail    *)
(* addresses are sequences of character codes so that the schema's         *)
(* lowercase/trim setters are computed, not assumed.  A JWT is the record  *)
(* of its payload and of the key that signed it: HS256 is deterministic,   *)
(* so two token strings are equal exactly when these records are equal.    *)
(***************************************************************************)
EXTENDS Integers, Sequences, FiniteSets, TLC

VARIABLES
    env,      \* envServer: the two signing secrets
    store,    \* the users collection: a set of user documents
    nextId,   \* the next ObjectId the driver hands out
    now,      \* Math.floor(Date.now() / 1000)
    ticks,    \* how many times the clock has advanced
    issued,   \* every token pair handed to a client so far
    req,      \* the in-flight request of every request slot
    cached,   \* global.mongoose: the connection cache {conn, promise}
    attempts, \* every mongoose.connect() promise: its state and its reactions
    callers,  \* every dbConnect() invocation: where it stands, what it got
    jobs,     \* the microtask queue: continuations waiting to run
    jar,      \* the browser's cookie jar entry 'notes.session-token'
    session,  \* the session calls of the running request and their results
    route,    \* the API route handling a request: its body, stage and response
    client    \* a run of request(): its options and the fetches it made

authVars == <<env, store, nextId, issued, req>>
dbVars == <<cached, attempts, callers, jobs>>
sessVars == <<jar, session>>
appVars == <<route, client>>
vars == <<env, store, nextId, now, ticks, issued, req,
          cached, attempts, callers, jobs, jar, session, route, client>>

----------------------------------------------------------------------------
(* Bounds of the model *)

MaxTicks == 1
MaxIssued == 3

\* The ObjectIds the driver hands out.
ObjectIds == {1, 2}

Procs == {"r1", "r2"}
Main == "r1"

\* "a", "A", "b": e-mail addresses that passed z.email(), abstracted to
\* their distinguishing letter.
Emails == {<<97>>, <<65>>, <<98>>}
Passwords == {"secret1", "secret2"}
\* The registrations tried: "a" and "A" are one address to the schema.
Registrations == {[email |-> <<97>>, password |-> "secret1"],
                  [email |-> <<65>>, password |-> "secret1"],
                  [email |-> <<98>>, password |-> "secret2"]}
Secrets == {"k1", "k2"}
TickSteps == {1, 900, 604800}

----------------------------------------------------------------------------
(* Program constants *)

AccessTTL == 900        \* expiresIn: '15m'
RefreshTTL == 604800    \* expiresIn: '7d'
BcryptCost == 12

----------------------------------------------------------------------------
(* The user schema and the user service *)

NoUser == [none |-> TRUE]
NoHash == [alg |-> "none"]

ToLowerChar(c) == IF c \in 65..90 THEN c + 32 ELSE c

Lowercase(s) == [i \in 1..Len(s) |-> ToLowerChar(s[i])]

RECURSIVE TrimLeft(_)
TrimLeft(s) == IF s # <<>> /\ Head(s) = 32 THEN TrimLeft(Tail(s)) ELSE s

RECURSIVE TrimRight(_)
TrimRight(s) ==
    IF s # <<>> /\ s[Len(s)] = 32 THEN TrimRight(SubSeq(s, 1, Len(s) - 1)) ELSE s

Trim(s) == TrimRight(TrimLeft(s))

\* userSchema.email: { lowercase: true, trim: true }; the setters run on
\* documents being created and on query filters being cast.
EmailSetter(e) == Trim(Lowercase(e))

\* Mutant: the filter reaches the collection as typed, without the setters.
findUserByEmail_Uncast(email) ==
    LET hits == {u \in store : u.email = email}
    IN  IF hits = {} THEN NoUser ELSE CHOOSE u \in hits : TRUE

\* User.findOne({ email })
findUserByEmail(email) ==
    LET hits == {u \in store : u.email = EmailSetter(email)}
    IN  IF hits = {} THEN NoUser ELSE CHOOSE u \in hits : TRUE

\* userSchema.email: { unique: true }: the index refuses a second document
\* with the same stored e-mail.
DuplicateKey(email) == \E u \in store : u.email = EmailSetter(email)

NewUser(name, email, hashed) ==
    [_id |-> nextId, name |-> name, email |-> EmailSetter(email), password |-> hashed]

bcryptHash(password) == [alg |-> "bcrypt", cost |-> BcryptCost, plain |-> password]

bcryptCompare(password, hashed) == hashed.alg = "bcrypt" /\ hashed.plain = password

stringifyObjectId(id) == ToString(id)

----------------------------------------------------------------------------
(* jwt.sign / jwt.verify and the token helpers *)

Null == [null |-> TRUE]
Malformed == [ok |-> FALSE]
JwtError == [error |-> "JsonWebTokenError"]

jwtSign(payload, secret, expiresIn) ==
    [ok |-> TRUE, userId |-> payload.userId, email |-> payload.email,
     type |-> payload.type, iat |-> now, exp |-> now + expiresIn, sig |-> secret]

jwtVerify(token, secret, ignoreExpiration) ==
    IF ~token.ok THEN JwtError
    ELSE IF token.sig # secret THEN JwtError
    ELSE IF ~ignoreExpiration /\ now >= token.exp THEN JwtError
    ELSE [userId |-> token.userId, email |-> token.email, type |-> token.type,
          iat |-> token.iat, exp |-> token.exp]

Threw(r) == "error" \in DOMAIN r

generateAccessToken(payload) ==
    jwtSign([userId |-> payload.userId, email |-> payload.email, type |-> "access"],
            env.JWT_ACCESS_SECRET, AccessTTL)

\* Mutant: the refresh token is signed with the access secret.
generateRefreshToken_AccessSecret(payload) ==
    jwtSign([userId |-> payload.userId, email |-> payload.email, type |-> "refresh"],
            env.JWT_ACCESS_SECRET, RefreshTTL)

generateRefreshToken(payload) ==
    jwtSign([userId |-> payload.userId, email |-> payload.email, type |-> "refresh"],
            env.JWT_REFRESH_SECRET, RefreshTTL)

\* Mutant: the discriminator check is left out.
verifyRefreshToken_NoTypeCheck(token) ==
    LET decoded == jwtVerify(token, env.JWT_REFRESH_SECRET, FALSE)
    IN  IF Threw(decoded) THEN Null ELSE decoded

verifyRefreshToken(token) ==
    LET decoded == jwtVerify(token, env.JWT_REFRESH_SECRET, FALSE)
    IN  IF Threw(decoded) THEN Null
        ELSE IF decoded.type # "refresh" THEN Null
        ELSE decoded

\* Mutant: the access token's expiry is enforced.
decodeAccessToken_ChecksExpiry(token) ==
    LET decoded == jwtVerify(token, env.JWT_ACCESS_SECRET, FALSE)
    IN  IF Threw(decoded) THEN Null
        ELSE IF decoded.type # "access" THEN Null
        ELSE decoded

\* Mutant: the error of jwt.verify is passed on instead of caught.
decodeAccessToken_Rethrows(token) ==
    LET decoded == jwtVerify(token, env.JWT_ACCESS_SECRET, TRUE)
    IN  IF Threw(decoded) THEN decoded
        ELSE IF decoded.type # "access" THEN Null
        ELSE decoded

decodeAccessToken(token) ==
    LET decoded == jwtVerify(token, env.JWT_ACCESS_SECRET, TRUE)
    IN  IF Threw(decoded) THEN Null
        ELSE IF decoded.type # "access" THEN Null
        ELSE decoded

----------------------------------------------------------------------------
(* API responses and errors *)

NoResp == [pending |-> TRUE]
NoError == [name |-> "none"]
NoPair == [access |-> Malformed, refresh |-> Malformed]

ApiError(message, status) == [name |-> "ApiError", message |-> message, status |-> status]

MongoServerError == [name |-> "MongoServerError", message |-> "E11000 duplicate key error"]
BcryptError == [name |-> "Error", message |-> "Illegal arguments: string, undefined"]

apiError(code, status, errors, type) ==
    [status |-> status, type |-> type, code |-> code, errors |-> errors]

apiSuccess(code, status, data, detail) ==
    [status |-> status, code |-> code, detail |-> detail, data |-> data]

\* What is thrown may be a Response rather than an Error: it has no message.
internalServerError(error) ==
    apiError("INTERNAL_SERVER_ERROR", 500,
             <<[detail |-> IF "message" \in DOMAIN error THEN error.message
                           ELSE "Unknown server error",
                attr |-> "null"]>>, "server_error")

\* What the framework answers when the rejection of a route's POST is
\* handled by no catch block of the route
Unhandled == [status |-> 500, type |-> "unhandled"]

\* The identity returned to the caller: the document without its password.
Identity(user) ==
    [id |-> stringifyObjectId(user._id), name |-> user.name, email |-> user.email]

TokenPair(user) ==
    LET userId == stringifyObjectId(user._id)
    IN  [access |-> generateAccessToken([userId |-> userId, email |-> user.email]),
         refresh |-> generateRefreshToken([userId |-> userId, email |-> user.email])]

LoginPayload(user) == [user |-> Identity(user), token |-> TokenPair(user)]

----------------------------------------------------------------------------
(* Request slots *)

Idle ==
    [op |-> "idle", pc |-> "idle", email |-> <<>>, password |-> "",
     access |-> Malformed, refresh |-> Malformed, user |-> NoUser,
     resp |-> NoResp, thrown |-> NoError, trace |-> <<>>]

\* A response is delivered as soon as its handler returns: no other step is
\* taken while a slot holds one, so a state that shows a response shows the
\* store and the clock as the handler left them.
Quiet == \A q \in Procs : req[q].pc # "done"

Free(p) == Quiet /\ req[p].pc = "idle"

At(p, op, pc) == Quiet /\ req[p].op = op /\ req[p].pc = pc

Done(r, resp, thrown) == [r EXCEPT !.pc = "done", !.resp = resp, !.thrown = thrown]

\* The collection as the process finds it: empty, or holding an account
\* written by other means that carries no password hash (the case
\* `!user.password` guards against).
Legacy == [_id |-> 0, name |-> "Old", email |-> <<98>>, password |-> NoHash]
SeedStores == {{}, {Legacy}}

AuthInit ==
    /\ env \in {[JWT_ACCESS_SECRET |-> a, JWT_REFRESH_SECRET |-> r,
                  SESSION_SECRET |-> "s1"] :
                    a \in {"k1"}, r \in Secrets}
    /\ store \in SeedStores
    /\ nextId = 1
    /\ now = 0
    /\ ticks = 0
    /\ issued = {}
    /\ req = [p \in Procs |-> Idle]

NoCookie == [absent |-> TRUE]

----------------------------------------------------------------------------
(* Environment *)

\* Wall-clock time passes.
Tick ==
    /\ Quiet
    /\ ticks < MaxTicks
    /\ \E d \in TickSteps : now' = now + d
    /\ ticks' = ticks + 1
    /\ UNCHANGED <<env, store, nextId, issued, req>>
    /\ UNCHANGED <<dbVars, sessVars, appVars>>

\* An account is removed from the collection by an administrator; nothing
\* in the application deletes users.
ExternalDelete ==
    /\ Quiet
    /\ \E u \in store : store' = store \ {u}
    /\ UNCHANGED <<env, nextId, now, ticks, issued, req>>
    /\ UNCHANGED <<dbVars, sessVars, appVars>>

\* The response of a finished request goes out and the slot is free again.
Respond(p) ==
    /\ req[p].pc = "done"
    /\ req' = [req EXCEPT ![p] = Idle]
    /\ UNCHANGED <<env, store, nextId, now, ticks, issued>>
    /\ UNCHANGED <<dbVars, sessVars, appVars>>

----------------------------------------------------------------------------
(* Sign-up: the route of app/api/auth/signup and the signUp service *)

RegisterData(email) == [id |-> stringifyObjectId(nextId), name |-> "Ann",
                        email |-> EmailSetter(email)]

\* await User.findOne({ email }) and the existence check
SignUpRouteFind(p, email, password) ==
    /\ Free(p)
    /\ nextId \in ObjectIds
    /\ LET existingUser == findUserByEmail(email)
           r == [Idle EXCEPT !.op = "signUpRoute", !.email = email,
                             !.password = password, !.user = existingUser,
                             !.trace = <<"find">>]
       IN  req' = [req EXCEPT ![p] =
              IF existingUser # NoUser
              THEN Done(r, apiError("CONFLICT", 409,
                            <<[detail |-> "User already exists with this email",
                               attr |-> "email"]>>, "client_error"), NoError)
              ELSE [r EXCEPT !.pc = "create"]]
    /\ UNCHANGED <<env, store, nextId, now, ticks, issued>>
    /\ UNCHANGED <<dbVars, sessVars, appVars>>

\* await bcrypt.hash(password, 12); await User.create({...}); the catch
\* block turns a rejected insert into the 500 response.
SignUpRouteCreate(p) ==
    /\ At(p, "signUpRoute", "create")
    /\ LET r == [req[p] EXCEPT !.trace = Append(@, "create")]
           hashedPassword == bcryptHash(r.password)
       IN  IF DuplicateKey(r.email)
           THEN /\ req' = [req EXCEPT ![p] =
                     Done(r, apiError("INTERNAL_SERVER_ERROR", 500,
                              <<[detail |-> MongoServerError.message, attr |-> "null"]>>,
                              "server_error"), NoError)]
                /\ UNCHANGED <<store, nextId>>
           ELSE /\ store' = store \cup {NewUser("Ann", r.email, hashedPassword)}
                /\ nextId' = nextId + 1
                /\ req' = [req EXCEPT ![p] =
                     Done(r, apiSuccess("CREATED", 201, RegisterData(r.email),
                                        "User registered successfully"), NoError)]
    /\ UNCHANGED <<env, now, ticks, issued>>
    /\ UNCHANGED <<dbVars, sessVars, appVars>>

\* signUp(data): findUserByEmail and the 409 ApiError
SignUpSvcFind(p, email, password) ==
    /\ Free(p)
    /\ nextId \in ObjectIds
    /\ LET existingUser == findUserByEmail(email)
           r == [Idle EXCEPT !.op = "signUp", !.email = email,
                             !.password = password, !.user = existingUser,
                             !.trace = <<"find">>]
       IN  req' = [req EXCEPT ![p] =
              IF existingUser # NoUser
              THEN Done(r, NoResp, ApiError("User already exists with this email", 409))
              ELSE [r EXCEPT !.pc = "create"]]
    /\ UNCHANGED <<env, store, nextId, now, ticks, issued>>
    /\ UNCHANGED <<dbVars, sessVars, appVars>>

\* signUp(data): bcrypt.hash, userService.createUser and the returned identity;
\* a rejected insert propagates to the caller as it is.
SignUpSvcCreate(p) ==
    /\ At(p, "signUp", "create")
    /\ LET r == [req[p] EXCEPT !.trace = Append(@, "create")]
           hashedPassword == bcryptHash(r.password)
       IN  IF DuplicateKey(r.email)
           THEN /\ req' = [req EXCEPT ![p] = Done(r, NoResp, MongoServerError)]
                /\ UNCHANGED <<store, nextId>>
           ELSE /\ store' = store \cup {NewUser("Ann", r.email, hashedPassword)}
                /\ nextId' = nextId + 1
                /\ req' = [req EXCEPT ![p] =
                     Done(r, [returned |-> RegisterData(r.email)], NoError)]
    /\ UNCHANGED <<env, now, ticks, issued>>
    /\ UNCHANGED <<dbVars, sessVars, appVars>>

----------------------------------------------------------------------------
(* Sign-in: the inline route, and the route that calls the signIn service *)

Unauthorized(detail, attr) ==
    apiError("UNAUTHORIZED", 401, <<[detail |-> detail, attr |-> attr]>>, "client_error")

\* verifyPassword(plainPassword, hashedPassword)
verifyPassword(plainPassword, hashedPassword) == bcryptCompare(plainPassword, hashedPassword)

\* The inline route's `!user` check: the response it returns, if any
signInInlineLookup(user) ==
    IF user = NoUser
    THEN Unauthorized("Invalid email or password", "email")
    ELSE NoResp

\* The inline route's password check: bcrypt.compare rejects when the stored
\* hash is missing; the route returns withDatabase(...) without awaiting it,
\* so the rejection passes its catch block by
signInInlineVerify(password, user) ==
    IF user.password = NoHash THEN Unhandled
    ELSE IF ~verifyPassword(password, user.password)
    THEN Unauthorized("Invalid email or password", "password")
    ELSE NoResp

\* POST of the inline route, up to the user lookup
SignInInlineFind(p, email, password) ==
    /\ Free(p)
    /\ Cardinality(issued) < MaxIssued
    /\ LET user == findUserByEmail(email)
           r == [Idle EXCEPT !.op = "signInInline", !.email = email,
                             !.password = password, !.user = user,
                             !.trace = <<"find">>]
           denied == signInInlineLookup(user)
       IN  req' = [req EXCEPT ![p] =
              IF denied # NoResp THEN Done(r, denied, NoError)
              ELSE [r EXCEPT !.pc = "compare"]]
    /\ UNCHANGED <<env, store, nextId, now, ticks, issued>>
    /\ UNCHANGED <<dbVars, sessVars, appVars>>

\* POST of the inline route: the password check, the token pair, the response
SignInInlineCompare(p) ==
    /\ At(p, "signInInline", "compare")
    /\ LET r == [req[p] EXCEPT !.trace = Append(@, "compare")]
           denied == signInInlineVerify(r.password, r.user)
       IN  IF denied # NoResp
           THEN /\ req' = [req EXCEPT ![p] = Done(r, denied, NoError)]
                /\ UNCHANGED issued
           ELSE LET payload == LoginPayload(r.user)
                IN  /\ req' = [req EXCEPT ![p] =
                         Done([r EXCEPT !.trace = Append(@, "generate")],
                              apiSuccess("OK", 200, payload, "Login successful"), NoError)]
                    /\ issued' = issued \cup {payload.token}
    /\ UNCHANGED <<env, store, nextId, now, ticks>>
    /\ UNCHANGED <<dbVars, sessVars, appVars>>

\* The catch block of the sign-in route
SignInCatch(error) ==
    IF error.name = "ApiError"
    THEN apiError("UNAUTHORIZED", error.status,
                  <<[detail |-> error.message, attr |-> "null"]>>, "client_error")
    ELSE internalServerError(error)

\* signIn(credentials): the `!user || !user.password` check
signInLookup(user) ==
    IF user = NoUser \/ user.password = NoHash
    THEN ApiError("Invalid email or password", 401)
    ELSE NoError

\* Mutant: the result of bcrypt.compare is not looked at.
signInVerify_Ignored(password, user) == NoError

\* signIn(credentials): bcrypt.compare and the `!isPasswordValid` check
signInVerify(password, user) ==
    IF ~bcryptCompare(password, user.password)
    THEN ApiError("Invalid email or password", 401)
    ELSE NoError

\* The sign-in route calling signIn(credentials), up to the user lookup
SignInFind(p, email, password) ==
    /\ Free(p)
    /\ Cardinality(issued) < MaxIssued
    /\ LET user == findUserByEmail(email)
           r == [Idle EXCEPT !.op = "signIn", !.email = email,
                             !.password = password, !.user = user,
                             !.trace = <<"find">>]
           error == signInLookup(user)
       IN  req' = [req EXCEPT ![p] =
              IF error # NoError THEN Done(r, SignInCatch(error), error)
              ELSE [r EXCEPT !.pc = "compare"]]
    /\ UNCHANGED <<env, store, nextId, now, ticks, issued>>
    /\ UNCHANGED <<dbVars, sessVars, appVars>>

\* signIn(credentials): the password check, the token pair, the payload
SignInCompare(p) ==
    /\ At(p, "signIn", "compare")
    /\ LET r == [req[p] EXCEPT !.trace = Append(@, "compare")]
           error == signInVerify(r.password, r.user)
       IN  IF error # NoError
           THEN /\ req' = [req EXCEPT ![p] = Done(r, SignInCatch(error), error)]
                /\ UNCHANGED issued
           ELSE LET payload == LoginPayload(r.user)
                IN  /\ req' = [req EXCEPT ![p] =
                         Done([r EXCEPT !.trace = Append(@, "generate")],
                              apiSuccess("OK", 200, payload, "Login successful"), NoError)]
                    /\ issued' = issued \cup {payload.token}
    /\ UNCHANGED <<env, store, nextId, now, ticks>>
    /\ UNCHANGED <<dbVars, sessVars, appVars>>

----------------------------------------------------------------------------
(* Refresh: the refreshSession service behind its route, and the inline route *)

\* What a client may present: the access token of any pair it was handed
\* with the refresh token of any pair; and, for each pair, its two tokens in
\* each other's place, one of them re-signed with a key the server does not
\* hold, or one of them replaced by a string that is no JWT.
Tampers == {"swapped", "forgedAccess", "forgedRefresh",
            "malformedAccess", "malformedRefresh"}
Forge(t) == [t EXCEPT !.sig = "attacker"]
Tampered(pair, tamper) ==
    CASE tamper = "swapped" -> [access |-> pair.refresh, refresh |-> pair.access]
      [] tamper = "forgedAccess" -> [access |-> Forge(pair.access), refresh |-> pair.refresh]
      [] tamper = "forgedRefresh" -> [access |-> pair.access, refresh |-> Forge(pair.refresh)]
      [] tamper = "malformedAccess" -> [access |-> Malformed, refresh |-> pair.refresh]
      [] tamper = "malformedRefresh" -> [access |-> pair.access, refresh |-> Malformed]
RefreshInputs ==
    {[access |-> pa.access, refresh |-> pr.refresh] : pa \in issued, pr \in issued}
        \cup {Tampered(pair, t) : pair \in issued, t \in Tampers}

\* The catch block of the refresh route
RefreshCatch(error) ==
    IF error.name = "ApiError"
    THEN apiError("UNAUTHORIZED", error.status,
                  <<[detail |-> error.message, attr |-> "token"]>>, "client_error")
    ELSE internalServerError(error)

\* Mutant: the refresh token is verified before the access token is decoded.
refreshSessionChecks_VerifyFirst(accessToken, refreshToken) ==
    LET accessDecoded == decodeAccessToken(accessToken)
        refreshDecoded == verifyRefreshToken(refreshToken)
    IN  IF refreshDecoded = Null
        THEN [error |-> ApiError("Invalid or expired refresh token", 401),
              trace |-> <<"verify">>, email |-> <<>>]
        ELSE IF accessDecoded = Null
        THEN [error |-> ApiError("Invalid access token", 401),
              trace |-> <<"verify", "decode">>, email |-> <<>>]
        ELSE IF accessDecoded.userId # refreshDecoded.userId
        THEN [error |-> ApiError("Token mismatch", 401),
              trace |-> <<"verify", "decode", "compare">>, email |-> <<>>]
        ELSE [error |-> NoError,
              trace |-> <<"verify", "decode", "compare">>, email |-> refreshDecoded.email]

\* Mutant: the two claim sets are not compared.
refreshSessionChecks_NoCompare(accessToken, refreshToken) ==
    LET accessDecoded == decodeAccessToken(accessToken)
        refreshDecoded == verifyRefreshToken(refreshToken)
    IN  IF accessDecoded = Null
        THEN [error |-> ApiError("Invalid access token", 401),
              trace |-> <<"decode">>, email |-> <<>>]
        ELSE IF refreshDecoded = Null
        THEN [error |-> ApiError("Invalid or expired refresh token", 401),
              trace |-> <<"decode", "verify">>, email |-> <<>>]
        ELSE [error |-> NoError,
              trace |-> <<"decode", "verify", "compare">>, email |-> refreshDecoded.email]

\* refreshSession, steps 1 to 3: everything before the first await
refreshSessionChecks(accessToken, refreshToken) ==
    LET accessDecoded == decodeAccessToken(accessToken)
        refreshDecoded == verifyRefreshToken(refreshToken)
    IN  IF accessDecoded = Null
        THEN [error |-> ApiError("Invalid access token", 401),
              trace |-> <<"decode">>, email |-> <<>>]
        ELSE IF refreshDecoded = Null
        THEN [error |-> ApiError("Invalid or expired refresh token", 401),
              trace |-> <<"decode", "verify">>, email |-> <<>>]
        ELSE IF accessDecoded.userId # refreshDecoded.userId
        THEN [error |-> ApiError("Token mismatch", 401),
              trace |-> <<"decode", "verify", "compare">>, email |-> <<>>]
        ELSE [error |-> NoError,
              trace |-> <<"decode", "verify", "compare">>, email |-> refreshDecoded.email]

RefreshStart(p, accessToken, refreshToken) ==
    /\ Free(p)
    /\ Cardinality(issued) < MaxIssued
    /\ LET c == refreshSessionChecks(accessToken, refreshToken)
           r == [Idle EXCEPT !.op = "refreshSession", !.access = accessToken,
                             !.refresh = refreshToken, !.email = c.email,
                             !.trace = c.trace]
       IN  req' = [req EXCEPT ![p] =
              IF c.error # NoError
              THEN Done(r, RefreshCatch(c.error), c.error)
              ELSE [r EXCEPT !.pc = "find"]]
    /\ UNCHANGED <<env, store, nextId, now, ticks, issued>>
    /\ UNCHANGED <<dbVars, sessVars, appVars>>

\* refreshSession, step 4: await userService.findUserByEmail(refreshDecoded.email)
RefreshFind(p) ==
    /\ At(p, "refreshSession", "find")
    /\ req' = [req EXCEPT ![p] = [req[p] EXCEPT !.user = findUserByEmail(req[p].email),
                                                !.trace = Append(@, "find"),
                                                !.pc = "resume"]]
    /\ UNCHANGED <<env, store, nextId, now, ticks, issued>>
    /\ UNCHANGED <<dbVars, sessVars, appVars>>

\* Mutant: the account is not looked at; the new pair is made from the
\* claims of the refresh token.
RefreshResume_TrustsClaims(p) ==
    /\ At(p, "refreshSession", "resume")
    /\ LET r == req[p]
           claims == [_id |-> IF r.refresh.userId = "1" THEN 1 ELSE 2,
                      name |-> "Ann", email |-> r.refresh.email]
           payload == LoginPayload(claims)
       IN  /\ req' = [req EXCEPT ![p] =
                  Done([r EXCEPT !.trace = Append(@, "generate")],
                       apiSuccess("OK", 200, payload, "Token refreshed successfully"),
                       NoError)]
           /\ issued' = issued \cup {payload.token}
    /\ UNCHANGED <<env, store, nextId, now, ticks>>
    /\ UNCHANGED <<dbVars, sessVars, appVars>>

\* refreshSession, the `!user` check and steps 5 and 6
RefreshResume(p) ==
    /\ At(p, "refreshSession", "resume")
    /\ LET r == req[p]
           error == ApiError("User not found", 401)
       IN  IF r.user = NoUser
           THEN /\ req' = [req EXCEPT ![p] = Done(r, RefreshCatch(error), error)]
                /\ UNCHANGED issued
           ELSE LET payload == LoginPayload(r.user)
                IN  /\ req' = [req EXCEPT ![p] =
                         Done([r EXCEPT !.trace = Append(@, "generate")],
                              apiSuccess("OK", 200, payload, "Token refreshed successfully"),
                              NoError)]
                    /\ issued' = issued \cup {payload.token}
    /\ UNCHANGED <<env, store, nextId, now, ticks>>
    /\ UNCHANGED <<dbVars, sessVars, appVars>>

\* The inline refresh route, up to its first await on the user store
refreshInlineChecks(accessToken, refreshToken) ==
    LET accessDecoded == decodeAccessToken(accessToken)
        refreshDecoded == verifyRefreshToken(refreshToken)
    IN  IF accessDecoded = Null
        THEN [resp |-> Unauthorized("Invalid access token", "accessToken"),
              trace |-> <<"decode">>, email |-> <<>>]
        ELSE IF refreshDecoded = Null
        THEN [resp |-> Unauthorized("Invalid or expired refresh token", "refreshToken"),
              trace |-> <<"decode", "verify">>, email |-> <<>>]
        ELSE IF \/ accessDecoded.userId # refreshDecoded.userId
                \/ accessDecoded.email # refreshDecoded.email
        THEN [resp |-> Unauthorized("Token mismatch - tokens belong to different users",
                                    "tokens"),
              trace |-> <<"decode", "verify", "compare">>, email |-> <<>>]
        ELSE [resp |-> NoResp,
              trace |-> <<"decode", "verify", "compare">>, email |-> refreshDecoded.email]

RefreshInlineStart(p, accessToken, refreshToken) ==
    /\ Free(p)
    /\ Cardinality(issued) < MaxIssued
    /\ LET c == refreshInlineChecks(accessToken, refreshToken)
           r == [Idle EXCEPT !.op = "refreshInline", !.access = accessToken,
                             !.refresh = refreshToken, !.email = c.email,
                             !.trace = c.trace]
       IN  req' = [req EXCEPT ![p] =
              IF c.resp # NoResp THEN Done(r, c.resp, NoError)
              ELSE [r EXCEPT !.pc = "find"]]
    /\ UNCHANGED <<env, store, nextId, now, ticks, issued>>
    /\ UNCHANGED <<dbVars, sessVars, appVars>>

\* The inline refresh route: await findUserByEmail(refreshDecoded.email)
RefreshInlineFind(p) ==
    /\ At(p, "refreshInline", "find")
    /\ req' = [req EXCEPT ![p] = [req[p] EXCEPT !.user = findUserByEmail(req[p].email),
                                                !.trace = Append(@, "find"),
                                                !.pc = "resume"]]
    /\ UNCHANGED <<env, store, nextId, now, ticks, issued>>
    /\ UNCHANGED <<dbVars, sessVars, appVars>>

\* Mutant: the new refresh token ends when the presented one does.
RefreshInlineResume_KeepsExpiry(p) ==
    /\ At(p, "refreshInline", "resume")
    /\ LET r == req[p]
       IN  IF r.user = NoUser
           THEN /\ req' = [req EXCEPT ![p] =
                     Done(r, Unauthorized("User not found", "tokens"), NoError)]
                /\ UNCHANGED issued
           ELSE LET fresh == LoginPayload(r.user)
                    payload == [fresh EXCEPT !.token.refresh.exp = r.refresh.exp]
                IN  /\ req' = [req EXCEPT ![p] =
                         Done([r EXCEPT !.trace = Append(@, "generate")],
                              apiSuccess("OK", 200, payload, "Token refreshed successfully"),
                              NoError)]
                    /\ issued' = issued \cup {payload.token}
    /\ UNCHANGED <<env, store, nextId, now, ticks>>
    /\ UNCHANGED <<dbVars, sessVars, appVars>>

\* The inline refresh route: the `!user` check, the new pair and the response
RefreshInlineResume(p) ==
    /\ At(p, "refreshInline", "resume")
    /\ LET r == req[p]
       IN  IF r.user = NoUser
           THEN /\ req' = [req EXCEPT ![p] =
                     Done(r, Unauthorized("User not found", "tokens"), NoError)]
                /\ UNCHANGED issued
           ELSE LET payload == LoginPayload(r.user)
                IN  /\ req' = [req EXCEPT ![p] =
                         Done([r EXCEPT !.trace = Append(@, "generate")],
                              apiSuccess("OK", 200, payload, "Token refreshed successfully"),
                              NoError)]
                    /\ issued' = issued \cup {payload.token}
    /\ UNCHANGED <<env, store, nextId, now, ticks>>
    /\ UNCHANGED <<dbVars, sessVars, appVars>>

----------------------------------------------------------------------------
(* The specification *)

Next ==
    \/ Tick
    \/ ExternalDelete
    \/ Respond(Main)
    \/ \E d \in Registrations : SignUpRouteFind(Main, d.email, d.password)
    \/ SignUpRouteCreate(Main)
    \/ \E d \in Registrations : SignUpSvcFind(Main, d.email, d.password)
    \/ SignUpSvcCreate(Main)
    \/ \E e \in Emails, pw \in Passwords : SignInInlineFind(Main, e, pw)
    \/ SignInInlineCompare(Main)
    \/ \E e \in Emails, pw \in Passwords : SignInFind(Main, e, pw)
    \/ SignInCompare(Main)
    \/ \E t \in RefreshInputs : RefreshStart(Main, t.access, t.refresh)
    \/ RefreshFind(Main)
    \/ RefreshResume(Main)
    \/ \E t \in RefreshInputs : RefreshInlineStart(Main, t.access, t.refresh)
    \/ RefreshInlineFind(Main)
    \/ RefreshInlineResume(Main)

\* The operations that hand out tokens, over accounts registered through
\* the signUp service
NextTokens ==
    \/ Tick
    \/ ExternalDelete
    \/ Respond(Main)
    \/ \E d \in Registrations : SignUpSvcFind(Main, d.email, d.password)
    \/ SignUpSvcCreate(Main)
    \/ \E e \in Emails, pw \in Passwords : SignInInlineFind(Main, e, pw)
    \/ SignInInlineCompare(Main)
    \/ \E e \in Emails, pw \in Passwords : SignInFind(Main, e, pw)
    \/ SignInCompare(Main)
    \/ \E t \in RefreshInputs : RefreshStart(Main, t.access, t.refresh)
    \/ RefreshFind(Main)
    \/ RefreshResume(Main)
    \/ \E t \in RefreshInputs : RefreshInlineStart(Main, t.access, t.refresh)
    \/ RefreshInlineFind(Main)
    \/ RefreshInlineResume(Main)

\* Concurrent registrations: every slot runs sign-up requests.
NextSignUp ==
    \/ ExternalDelete
    \/ \E p \in Procs : Respond(p)
    \/ \E p \in Procs, d \in Registrations : SignUpRouteFind(p, d.email, d.password)
    \/ \E p \in Procs : SignUpRouteCreate(p)
    \/ \E p \in Procs, d \in Registrations : SignUpSvcFind(p, d.email, d.password)
    \/ \E p \in Procs : SignUpSvcCreate(p)

----------------------------------------------------------------------------
(* The database connection cache: dbConnect of libs/mongodb.ts *)

\* How many times mongoose.connect() may be called in a run
MaxAttempts == 2
\* The invocations of dbConnect that may be alive at once
DbCallers == {"a", "b", "c"}

\* A promise is named by the number of the connection attempt behind it, and
\* the connection an attempt yields by that same number; 0 stands for null.
NoConn == 0
NoPromise == 0
AttemptIds == 1..MaxAttempts

NoAttempt == [state |-> "unused", reactions |-> <<>>]
NoCall == [pc |-> "idle", awaits |-> NoPromise, result |-> NoConn]

\* const cached = global.mongoose || { conn: null, promise: null }
DbInit ==
    /\ cached = [conn |-> NoConn, promise |-> NoPromise]
    /\ attempts = [i \in AttemptIds |-> NoAttempt]
    /\ callers = [c \in DbCallers |-> NoCall]
    /\ jobs = <<>>

\* The promise the next mongoose.connect() would return (0: none is left)
FreshAttempt ==
    LET unused == {i \in AttemptIds : attempts[i].state = "unused"}
    IN  IF unused = {} THEN NoPromise
        ELSE CHOOSE i \in unused : \A j \in unused : i <= j

Pending == {i \in AttemptIds : attempts[i].state = "pending"}
Settled(i) == attempts[i].state \in {"fulfilled", "rejected"}

\* Mutant: the cached promise is not consulted before connecting.
dbConnectEnter_AlwaysConnects(cache, fresh) ==
    IF cache.conn # NoConn
    THEN [cache |-> cache, done |-> TRUE, awaits |-> NoPromise, started |-> FALSE]
    ELSE [cache |-> [cache EXCEPT !.promise = fresh], done |-> FALSE,
          awaits |-> fresh, started |-> TRUE]

\* dbConnect up to its await: the early return, the `!cached.promise` check,
\* the call of mongoose.connect, and the promise that is awaited
dbConnectEnter(cache, fresh) ==
    IF cache.conn # NoConn
    THEN [cache |-> cache, done |-> TRUE, awaits |-> NoPromise, started |-> FALSE]
    ELSE IF cache.promise = NoPromise
    THEN [cache |-> [cache EXCEPT !.promise = fresh], done |-> FALSE,
          awaits |-> fresh, started |-> TRUE]
    ELSE [cache |-> cache, done |-> FALSE, awaits |-> cache.promise,
          started |-> FALSE]

\* Mutant: the catch block rethrows without clearing the cached promise.
dbConnectResume_KeepsPromise(cache, state, value) ==
    IF state = "fulfilled"
    THEN [cache |-> [cache EXCEPT !.conn = value], threw |-> FALSE]
    ELSE [cache |-> cache, threw |-> TRUE]

\* Mutant: the promise is cleared in a finally block and the connection is
\* returned without being stored.
dbConnectResume_ForgetsConnection(cache, state, value) ==
    IF state = "fulfilled"
    THEN [cache |-> [cache EXCEPT !.promise = NoPromise], threw |-> FALSE]
    ELSE [cache |-> [cache EXCEPT !.promise = NoPromise], threw |-> TRUE]

\* dbConnect from its await on: `cached.conn = await cached.promise` and the
\* catch block
dbConnectResume(cache, state, value) ==
    IF state = "fulfilled"
    THEN [cache |-> [cache EXCEPT !.conn = value], threw |-> FALSE]
    ELSE [cache |-> [cache EXCEPT !.promise = NoPromise], threw |-> TRUE]

ResumeJob(c) == [kind |-> "resume", caller |-> c]
CallJob(c) == [kind |-> "call", caller |-> c]

\* One invocation of dbConnect by c, run to its await (or to its return);
\* awaiting a promise that is already settled queues the continuation at once.
Invoke(c, queue) ==
    LET r == dbConnectEnter(cached, FreshAttempt)
    IN  /\ r.started => FreshAttempt # NoPromise
        /\ cached' = r.cache
        /\ IF r.done
           THEN /\ callers' = [callers EXCEPT ![c] =
                       [pc |-> "returned", awaits |-> NoPromise, result |-> cached.conn]]
                /\ UNCHANGED attempts
                /\ jobs' = queue
           ELSE /\ callers' = [callers EXCEPT ![c] =
                       [pc |-> "awaiting", awaits |-> r.awaits, result |-> NoConn]]
                /\ IF r.started
                   THEN /\ attempts' = [attempts EXCEPT ![r.awaits] =
                               [state |-> "pending", reactions |-> <<c>>]]
                        /\ jobs' = queue
                   ELSE IF Settled(r.awaits)
                   THEN /\ UNCHANGED attempts
                        /\ jobs' = Append(queue, ResumeJob(c))
                   ELSE /\ attempts' = [attempts EXCEPT ![r.awaits].reactions =
                                                          Append(@, c)]
                        /\ jobs' = queue

\* A request handler reaches `await dbConnect()`.  Handlers start from I/O
\* callbacks, which run only once the microtask queue has drained.
DbRequest(c) ==
    /\ jobs = <<>>
    /\ callers[c].pc # "awaiting"
    /\ Invoke(c, jobs)
    /\ UNCHANGED <<authVars, now, ticks, sessVars, appVars>>

\* The driver settles a connection attempt, from an I/O callback; the
\* continuations of everything awaiting the promise are queued in the order
\* in which they awaited.
Settle(i, outcome) ==
    /\ jobs = <<>>
    /\ attempts[i].state = "pending"
    /\ attempts' = [attempts EXCEPT ![i] = [state |-> outcome, reactions |-> <<>>]]
    /\ jobs' = [k \in 1..Len(attempts[i].reactions) |->
                   ResumeJob(attempts[i].reactions[k])]
    /\ UNCHANGED <<cached, callers>>
    /\ UNCHANGED <<authVars, now, ticks, sessVars, appVars>>

\* The first queued microtask is the continuation of a dbConnect that was
\* awaiting: it stores the connection or clears the promise.  What awaited
\* this dbConnect runs in a later microtask and may call dbConnect again.
Resume(again) ==
    /\ jobs # <<>>
    /\ Head(jobs).kind = "resume"
    /\ LET c == Head(jobs).caller
           i == callers[c].awaits
           r == dbConnectResume(cached, attempts[i].state, i)
       IN  /\ cached' = r.cache
           /\ callers' = [callers EXCEPT ![c] =
                  [pc |-> IF r.threw THEN "threw" ELSE "returned",
                   awaits |-> i,
                   result |-> IF r.threw THEN NoConn ELSE r.cache.conn]]
           /\ jobs' = IF again THEN Append(Tail(jobs), CallJob(c)) ELSE Tail(jobs)
    /\ UNCHANGED attempts
    /\ UNCHANGED <<authVars, now, ticks, sessVars, appVars>>

\* The first queued microtask calls dbConnect again.
CallAgain ==
    /\ jobs # <<>>
    /\ Head(jobs).kind = "call"
    /\ Invoke(Head(jobs).caller, Tail(jobs))
    /\ UNCHANGED <<authVars, now, ticks, sessVars, appVars>>

NextDb ==
    \/ \E c \in DbCallers : DbRequest(c)
    \/ \E i \in AttemptIds : Settle(i, "fulfilled")
    \/ \E i \in AttemptIds : Settle(i, "rejected")
    \/ Resume(FALSE)
    \/ Resume(TRUE)
    \/ CallAgain

----------------------------------------------------------------------------
(* The session envelope: encryptSession / decryptSession of session.ts     *)
(*                                                                         *)
(* Strings are sequences of character codes and buffers are sequences of   *)
(* bytes.  The block cipher is a keyed permutation of the byte values and  *)
(* is run in CBC mode with PKCS#7 padding, as 'aes-256-cbc' is; blocks are *)
(* BlockLen bytes long and addition modulo 256 stands for XOR.  What the   *)
(* model keeps of AES is what the envelope relies on: decryption inverts   *)
(* encryption under the same key and IV, the padding is checked, and       *)
(* nothing authenticates the ciphertext.                                   *)

Byte == 256
BlockLen == 4
Colon == 58                        \* ':'
NonHex == 122                      \* 'z'

HexDigit(n) == IF n < 10 THEN 48 + n ELSE 87 + n
HexValue(c) ==
    IF c \in 48..57 THEN c - 48
    ELSE IF c \in 97..102 THEN c - 87
    ELSE IF c \in 65..70 THEN c - 55
    ELSE -1

\* buffer.toString('hex')
toHex(bytes) ==
    [k \in 1..(2 * Len(bytes)) |->
        IF k % 2 = 1 THEN HexDigit(bytes[(k + 1) \div 2] \div 16)
        ELSE HexDigit(bytes[k \div 2] % 16)]

\* Buffer.from(string, 'hex'): decoding stops at the first pair that is not
\* two hex digits
RECURSIVE fromHex(_)
fromHex(str) ==
    IF Len(str) < 2 \/ HexValue(str[1]) < 0 \/ HexValue(str[2]) < 0 THEN <<>>
    ELSE <<16 * HexValue(str[1]) + HexValue(str[2])>> \o fromHex(SubSeq(str, 3, Len(str)))

\* string.split(':')
RECURSIVE split(_, _)
split(str, sep) ==
    IF \A k \in 1..Len(str) : str[k] # sep THEN <<str>>
    ELSE LET k == CHOOSE i \in 1..Len(str) :
                     str[i] = sep /\ \A j \in 1..(i - 1) : str[j] # sep
         IN  <<SubSeq(str, 1, k - 1)>> \o split(SubSeq(str, k + 1, Len(str)), sep)

\* crypto.scryptSync(secret, 'salt', 32): the key of a secret
SessionSecrets == {"s1", "s2"}
scryptSync(secret) == IF secret = "s1" THEN 37 ELSE 91

\* The block cipher on one byte, and its inverse (3 * 171 = 1 modulo 256)
CipherByte(key, b) == (3 * b + key) % Byte
DecipherByte(key, c) == (171 * (c + Byte - key)) % Byte

\* PKCS#7: between 1 and BlockLen bytes, each holding their number
Pad(bytes) ==
    LET n == BlockLen - (Len(bytes) % BlockLen)
    IN  bytes \o [k \in 1..n |-> n]

\* cipher.update(data) + cipher.final()
CbcEncrypt(plain, key, iv) ==
    LET padded == Pad(plain)
        c[k \in 1..Len(padded)] ==
            CipherByte(key, (padded[k] + (IF k <= BlockLen THEN iv[k]
                                          ELSE c[k - BlockLen])) % Byte)
    IN  c

CipherError == [error |-> "ERR_OSSL_BAD_DECRYPT"]

\* Mutant: every block is unchained with the IV instead of with the block
\* before it.
CbcDecrypt_UnchainsWithIv(cipher, key, iv) ==
    IF Len(iv) # BlockLen THEN [error |-> "ERR_CRYPTO_INVALID_IV"]
    ELSE IF Len(cipher) = 0 \/ Len(cipher) % BlockLen # 0 THEN CipherError
    ELSE LET p == [k \in 1..Len(cipher) |->
                      (DecipherByte(key, cipher[k]) + Byte
                          - iv[((k - 1) % BlockLen) + 1]) % Byte]
             n == p[Len(p)]
         IN  IF n \notin 1..BlockLen THEN CipherError
             ELSE IF \E k \in (Len(p) - n + 1)..Len(p) : p[k] # n THEN CipherError
             ELSE [bytes |-> SubSeq(p, 1, Len(p) - n)]

\* createDecipheriv + decipher.update(data) + decipher.final(): the bytes of
\* the plaintext, or the error thrown for an IV of the wrong length, for a
\* ciphertext that is no whole number of blocks, and for bad padding
CbcDecrypt(cipher, key, iv) ==
    IF Len(iv) # BlockLen THEN [error |-> "ERR_CRYPTO_INVALID_IV"]
    ELSE IF Len(cipher) = 0 \/ Len(cipher) % BlockLen # 0 THEN CipherError
    ELSE LET p == [k \in 1..Len(cipher) |->
                      (DecipherByte(key, cipher[k]) + Byte
                          - (IF k <= BlockLen THEN iv[k] ELSE cipher[k - BlockLen]))
                      % Byte]
             n == p[Len(p)]
         IN  IF n \notin 1..BlockLen THEN CipherError
             ELSE IF \E k \in (Len(p) - n + 1)..Len(p) : p[k] # n THEN CipherError
             ELSE [bytes |-> SubSeq(p, 1, Len(p) - n)]

\* The envelope of `data` under a given secret and IV
Seal(data, secret, iv) ==
    toHex(iv) \o <<Colon>> \o toHex(CbcEncrypt(data, scryptSync(secret), iv))

\* crypto.randomBytes(16)
Ivs == {<<0, 0, 0, 0>>, <<18, 52, 171, 205>>}

\* encryptSession(data), for the IV that randomBytes drew
encryptSession(data, iv) == Seal(data, env.SESSION_SECRET, iv)

\* Mutant: a string of more than two parts is not turned away.
decryptSession_AtLeastTwoParts(data) ==
    LET key == scryptSync(env.SESSION_SECRET)
        parts == split(data, Colon)
    IN  IF Len(parts) < 2 THEN Null
        ELSE LET iv == fromHex(parts[1])
                 decrypted == CbcDecrypt(fromHex(parts[2]), key, iv)
             IN  IF Threw(decrypted) THEN Null
                 ELSE IF decrypted.bytes = <<>> THEN Null
                 ELSE [text |-> decrypted.bytes]

\* decryptSession(data): [text |-> plaintext], or Null
decryptSession(data) ==
    LET key == scryptSync(env.SESSION_SECRET)
        parts == split(data, Colon)
    IN  IF Len(parts) # 2 THEN Null
        ELSE LET iv == fromHex(parts[1])
                 decrypted == CbcDecrypt(fromHex(parts[2]), key, iv)
             IN  IF Threw(decrypted) THEN Null
                 ELSE IF decrypted.bytes = <<>> THEN Null
                 ELSE [text |-> decrypted.bytes]

----------------------------------------------------------------------------
(* The session cookie *)

\* Bounds of the hostile-client model: how many times the client edits the
\* cookie it holds
MaxEdits == 1

\* The identities the API returns, and the token pair it issued at time t
SessionUsers == {1, 2}
SessionIdentity(u) ==
    [id |-> stringifyObjectId(u), name |-> "Ann",
     email |-> IF u = 1 THEN <<97>> ELSE <<98>>]
PairIssuedAt(u, t) ==
    LET payload == [userId |-> stringifyObjectId(u), email |-> SessionIdentity(u).email]
    IN  [access |-> [generateAccessToken(payload) EXCEPT !.iat = t, !.exp = t + AccessTTL],
         refresh |-> [generateRefreshToken(payload) EXCEPT !.iat = t, !.exp = t + RefreshTTL]]

\* Every value the clock can show
RECURSIVE Times(_)
Times(n) ==
    IF n = 0 THEN {0}
    ELSE Times(n - 1) \cup {t + d : t \in Times(n - 1), d \in TickSteps}
ClockValues == Times(MaxTicks)
TimeIndex(t) == 1 + Cardinality({x \in ClockValues : x < t})
TimeAt(i) == CHOOSE t \in ClockValues : TimeIndex(t) = i

\* interface SessionData
SessionData(u, t, remember) ==
    [user |-> SessionIdentity(u), token |-> PairIssuedAt(u, t),
     expirate |-> t + AccessTTL, remember |-> remember]

\* The object literal the signIn action passes to createSession
SignInSession(data, decodedToken) ==
    [user |-> [id |-> data.user.id, name |-> data.user.name, email |-> data.user.email],
     token |-> [access |-> data.token.access, refresh |-> data.token.refresh],
     exp |-> decodedToken.exp]

\* JSON.stringify / JSON.parse.  A JSON text is '{', four bytes that spell
\* the object out (its shape, the user, the remember flag, the time its
\* tokens were issued) and '}'.  Any other text is a syntax error; a text
\* whose four bytes spell no session object is valid JSON for something else.
JsonCodes ==
    {<<1, u, r, i>> : u \in SessionUsers, r \in {0, 1}, i \in 1..Cardinality(ClockValues)}
        \cup {<<2, u, 0, i>> : u \in SessionUsers, i \in 1..Cardinality(ClockValues)}
JsonValue(c) ==
    IF c[1] = 1 THEN SessionData(c[2], TimeAt(c[4]), c[3] = 1)
    ELSE LET pair == PairIssuedAt(c[2], TimeAt(c[4]))
         IN  SignInSession([user |-> SessionIdentity(c[2]), token |-> pair], pair.access)
JSONstringify(value) ==
    LET u == CHOOSE v \in SessionUsers : SessionIdentity(v) = value.user
        i == TimeIndex(value.token.access.iat)
    IN  IF "expirate" \in DOMAIN value
        THEN <<123, 1, u, IF value.remember THEN 1 ELSE 0, i, 125>>
        ELSE <<123, 2, u, 0, i, 125>>
SyntaxError == [error |-> "SyntaxError"]
JSONparse(text) ==
    IF Len(text) # 6 \/ text[1] # 123 \/ text[6] # 125 THEN SyntaxError
    ELSE LET c == SubSeq(text, 2, 5)
         IN  IF c \in JsonCodes THEN [value |-> JsonValue(c)]
             ELSE [value |-> [json |-> c]]

\* new Date(data.expirate * 1000), in seconds; a record without the field
\* gives new Date(NaN)
InvalidDate == -1
ExpiresOf(data) ==
    IF "expirate" \in DOMAIN data THEN data.expirate ELSE InvalidDate

\* cookieStore.set: the browser keeps the cookie unless its Expires has
\* passed; an Expires it cannot read leaves a cookie without expiry
cookieStoreSet(value, expires) ==
    IF expires # InvalidDate /\ expires <= now THEN NoCookie
    ELSE [value |-> value, expires |-> expires]

\* Mutant: the cookie is left in place.
cookieStoreDelete_Keeps(cookie) == cookie

\* cookieStore.delete
cookieStoreDelete(cookie) == NoCookie

\* cookieStore.get('notes.session-token'): what the browser sends
cookieStoreGet ==
    IF jar = NoCookie THEN NoCookie
    ELSE IF jar.expires # InvalidDate /\ now >= jar.expires THEN NoCookie
    ELSE jar

\* getSession(): the parsed session, Null, or the error that escapes
getSession(sessionCookie) ==
    IF sessionCookie = NoCookie THEN Null
    ELSE IF sessionCookie.value = <<>> THEN Null
    ELSE LET decrypted == decryptSession(sessionCookie.value)
         IN  IF decrypted = Null THEN Null ELSE JSONparse(decrypted.text)

NoSession == [none |-> TRUE]
NotRead == [unread |-> TRUE]

\* What `await auth.signIn(credentials)` comes back with: a response with
\* data, a response without, an ApiError made from an error response, or
\* something thrown that is no Error
NoAnswer == [kind |-> "none"]
ApiData(u) ==
    [kind |-> "data",
     data |-> [user |-> SessionIdentity(u), token |-> PairIssuedAt(u, now)]]
ApiFailures ==
    {[kind |-> "noData"], [kind |-> "thrown"],
     [kind |-> "ApiError",
      errors |-> <<[detail |-> "Invalid email or password", attr |-> "null"]>>],
     [kind |-> "ApiError",
      errors |-> <<[detail |-> "Please enter a valid email address", attr |-> "email"],
                   [detail |-> "Password must be at least 6 characters long",
                    attr |-> "password"]>>]}
ApiAnswers ==
    {ApiData(u) : u \in SessionUsers}
        \cup UNION {{[ApiData(u) EXCEPT !.data.token.access = a] :
                        a \in {Forge(PairIssuedAt(u, now).access),
                               PairIssuedAt(u, now).refresh, Malformed}} :
                     u \in SessionUsers}
        \cup ApiFailures

\* error.errors.map((error) => error.detail).join(', ')
RECURSIVE JoinDetails(_)
JoinDetails(errors) ==
    IF errors = <<>> THEN ""
    ELSE IF Len(errors) = 1 THEN errors[1].detail
    ELSE errors[1].detail \o ", " \o JoinDetails(Tail(errors))

\* Mutant: a failed API call is swallowed and the action returns null.
signInResult_SwallowsFailure(answer) ==
    IF answer.kind = "data" /\ decodeAccessToken(answer.data.token.access) # Null
    THEN [outcome |-> "data", message |-> ""]
    ELSE [outcome |-> "null", message |-> ""]

\* signIn('credentials', credentials) from the answer of auth.signIn on:
\* what it returns (the data, or null) or the message of the Error it throws
signInResult(answer) ==
    IF answer.kind = "data"
    THEN IF decodeAccessToken(answer.data.token.access) = Null
         THEN [outcome |-> "null", message |-> ""]
         ELSE [outcome |-> "data", message |-> ""]
    ELSE [outcome |-> "threw",
          message |-> IF answer.kind = "ApiError" THEN JoinDetails(answer.errors)
                      ELSE IF answer.kind = "noData" THEN ""
                      ELSE "Login failed with unknown reason!"]

SessionInit ==
    /\ jar = NoCookie
    /\ session = [op |-> "none", data |-> NoSession, live |-> FALSE,
                  purged |-> FALSE, got |-> NotRead, sealed |-> <<>>, edits |-> 0,
                  failed |-> [answer |-> NoAnswer, message |-> ""]]

\* createSession(data)
createSession(data, iv, op) ==
    LET blob == encryptSession(JSONstringify(data), iv)
    IN  /\ jar' = cookieStoreSet(blob, ExpiresOf(data))
        /\ session' = [session EXCEPT !.op = op, !.data = data, !.live = TRUE,
                                      !.got = NotRead, !.sealed = blob]

\* Code outside the sign-in action creates a session from a SessionData
CreateSession(u, remember, iv) ==
    /\ createSession(SessionData(u, now, remember), iv, "createSession")
    /\ UNCHANGED <<authVars, now, ticks, dbVars, appVars>>

\* signIn('credentials', credentials), once auth.signIn has answered: the
\* session is created from the data when its access token decodes; in every
\* other case nothing is written
SignInAction(answer, iv) ==
    /\ LET r == signInResult(answer)
       IN  IF r.outcome = "data"
           THEN createSession(SignInSession(answer.data,
                                  decodeAccessToken(answer.data.token.access)),
                              iv, "signIn")
           ELSE /\ session' = [session EXCEPT
                       !.op = IF r.outcome = "null" THEN "signIn:null" ELSE "signIn:threw",
                       !.got = NotRead,
                       !.failed = [answer |-> answer, message |-> r.message]]
                /\ UNCHANGED jar
    /\ UNCHANGED <<authVars, now, ticks, dbVars, appVars>>

\* await getSession()
GetSession ==
    /\ session' = [session EXCEPT !.op = "getSession", !.got = getSession(cookieStoreGet)]
    /\ UNCHANGED jar
    /\ UNCHANGED <<authVars, now, ticks, dbVars, appVars>>

\* The updater of a token rotation: a new pair and its expiry
Rotated(current) ==
    LET u == CHOOSE v \in SessionUsers : SessionIdentity(v) = current.user
    IN  IF "expirate" \in DOMAIN current
        THEN [current EXCEPT !.token = PairIssuedAt(u, now), !.expirate = now + AccessTTL]
        ELSE [current EXCEPT !.token = PairIssuedAt(u, now), !.exp = now + AccessTTL]

\* Mutant: without a current session the updater's result is stored all the
\* same, from an empty record.
UpdateSession_CreatesSession(iv) ==
    /\ LET current == getSession(cookieStoreGet)
       IN  /\ ~Threw(current)
           /\ IF current = Null
              THEN createSession(SessionData(1, now, FALSE), iv, "updateSession")
              ELSE createSession(Rotated(current.value), iv, "updateSession")
    /\ UNCHANGED <<authVars, now, ticks, dbVars, appVars>>

\* updateSession(updater)
UpdateSession(iv) ==
    /\ LET current == getSession(cookieStoreGet)
       IN  /\ ~Threw(current)
           /\ IF current = Null
              THEN /\ session' = [session EXCEPT !.op = "updateSession", !.got = NotRead]
                   /\ UNCHANGED jar
              ELSE createSession(Rotated(current.value), iv, "updateSession")
    /\ UNCHANGED <<authVars, now, ticks, dbVars, appVars>>

\* purgeSession()
PurgeSession ==
    /\ jar' = cookieStoreDelete(jar)
    /\ session' = [session EXCEPT !.op = "purgeSession", !.live = FALSE,
                                  !.purged = TRUE, !.got = NotRead]
    /\ UNCHANGED <<authVars, now, ticks, dbVars, appVars>>

\* A cookie the browser still holds from a deployment that used another
\* SESSION_SECRET
ForeignCookie(u, iv) ==
    /\ jar' = [value |-> Seal(JSONstringify(SessionData(u, now, FALSE)), "s2", iv),
               expires |-> now + AccessTTL]
    /\ session' = [session EXCEPT !.op = "foreign", !.got = NotRead,
                                  !.sealed = <<>>]
    /\ UNCHANGED <<authVars, now, ticks, dbVars, appVars>>

\* What a client can make of the cookie it holds with one edit: a character
\* replaced, a colon appended, the colon taken out, the end cut off
EditChars == {48, Colon, NonHex}
EditAt(value) == {1, 2 * BlockLen + 1, 2 * BlockLen + 2, Len(value)}
Edits(value) ==
    {[value EXCEPT ![k] = c] : k \in EditAt(value), c \in EditChars}
        \cup {value \o <<Colon>>,
              SelectSeq(value, LAMBDA c : c # Colon),
              SubSeq(value, 1, Len(value) - 1)}

\* The client sends back something else than it was given.
EditCookie ==
    /\ jar # NoCookie
    /\ session.edits < MaxEdits
    /\ \E value \in Edits(jar.value) :
          /\ value # jar.value
          /\ jar' = [jar EXCEPT !.value = value]
    /\ session' = [session EXCEPT !.op = "edit", !.got = NotRead, !.edits = @ + 1]
    /\ UNCHANGED <<authVars, now, ticks, dbVars, appVars>>

NextCookie ==
    \/ \E u \in SessionUsers, r \in BOOLEAN, iv \in Ivs : CreateSession(u, r, iv)
    \/ \E u \in SessionUsers, iv \in Ivs : ForeignCookie(u, iv)
    \/ EditCookie
    \/ GetSession

NextSession ==
    \/ Tick
    \/ \E u \in SessionUsers, r \in BOOLEAN, iv \in Ivs : CreateSession(u, r, iv)
    \/ \E u \in SessionUsers, iv \in Ivs : SignInAction(ApiData(u), iv)
    \/ GetSession
    \/ \E iv \in Ivs : UpdateSession(iv)
    \/ PurgeSession

\* The sign-in action over every answer of the API
NextSignIn ==
    \/ Tick
    \/ \E answer \in ApiAnswers, iv \in Ivs : SignInAction(answer, iv)
    \/ GetSession
    \/ PurgeSession


----------------------------------------------------------------------------
(* The API routes: validation, the database connection, the handler *)

\* The invocation of dbConnect that belongs to the route
RouteCaller == "a"

RouteKinds == {"signUpRoute", "signIn", "signInInline", "refreshSession", "refreshInline"}
\* The routes that return withDatabase(...) without awaiting it
InlineKinds == {"signInInline", "refreshInline"}

EmptyString == [ok |-> FALSE, empty |-> TRUE]
ConnectError == [name |-> "MongooseServerSelectionError",
                 message |-> "connect ECONNREFUSED 127.0.0.1:27017"]

NoRoute == [pc |-> "idle", kind |-> "none", body |-> <<>>, resp |-> NoResp,
            escaped |-> NoError, log |-> <<>>, connects |-> 0, trace |-> <<>>]

RouteInit == route = NoRoute

\* z.email(): a non-empty run of letters stands for an address
zEmail(e) == Len(e) > 0 /\ \A i \in 1..Len(e) : e[i] \in (65..90) \cup (97..122)

Issue(message, attr) == <<[message |-> message, path |-> <<attr>>]>>
When(failed, issue) == IF failed THEN issue ELSE <<>>

\* loginSchema, registerSchema and refreshTokenSchema: the issues of
\* safeParse(body), in the order of the schema's fields
safeParse(kind, body) ==
    IF kind \in {"refreshSession", "refreshInline"}
    THEN When(body.accessToken = EmptyString,
              Issue("Access token is required", "accessToken"))
         \o When(body.refreshToken = EmptyString,
                 Issue("Refresh token is required", "refreshToken"))
    ELSE LET fields ==
               When(kind = "signUpRoute" /\ Len(body.name) < 1,
                    Issue("Name is required", "name"))
               \o When(~zEmail(body.email),
                       Issue("Please enter a valid email address", "email"))
               \o When(Len(body.password) < 6,
                       Issue("Password must be at least 6 characters long", "password"))
               \o When(kind = "signUpRoute" /\ Len(body.confirmPassword) < 1,
                       Issue("Please confirm your password", "confirmPassword"))
         IN  IF kind = "signUpRoute" /\ fields = <<>>
             THEN When(body.password # body.confirmPassword,
                       Issue("Passwords do not match", "confirmPassword"))
             ELSE fields

\* validationError(issues): each issue mapped to {detail, attr}
validationError(issues) ==
    apiError("BAD_REQUEST", 400,
             [i \in 1..Len(issues) |->
                 [detail |-> issues[i].message, attr |-> issues[i].path[1]]],
             "client_error")

\* What a route answers to a body its schema refuses: the sign-up route
\* builds the 400 itself; withValidation throws it as a Response, which the
\* catch block of the service routes returns and the catch block of the
\* inline routes hands to internalServerError
invalidBody(kind, issues) ==
    IF kind \in InlineKinds
    THEN internalServerError(validationError(issues))
    ELSE validationError(issues)

\* The bodies posted: every field present and a string
RouteBodies(kind) ==
    IF kind \in {"refreshSession", "refreshInline"}
    THEN {[accessToken |-> t.access, refreshToken |-> t.refresh] : t \in RefreshInputs}
         \cup {[accessToken |-> a, refreshToken |-> r] :
                 a \in {EmptyString, Malformed}, r \in {EmptyString, Malformed}}
    ELSE IF kind = "signUpRoute"
    THEN {[name |-> n, email |-> d.email, password |-> d.password,
           confirmPassword |-> d.password] : n \in {"Ann", ""}, d \in Registrations}
         \cup {[name |-> "Ann", email |-> <<97>>, password |-> "secret1",
                confirmPassword |-> c] : c \in {"", "secret2"}}
         \cup {[name |-> "", email |-> <<>>, password |-> "abc", confirmPassword |-> ""]}
    ELSE {[email |-> e, password |-> w] :
             e \in Emails \cup {<<>>, <<97, 32>>}, w \in Passwords \cup {"abc"}}

\* POST up to `await dbConnect()`: the body is parsed and validated; a body
\* the schema refuses is answered at once, any other reaches dbConnect.
RouteRequest(kind, body) ==
    /\ route.pc # "connecting"
    /\ jobs = <<>>
    /\ callers[RouteCaller].pc # "awaiting"
    /\ LET issues == safeParse(kind, body)
           r == [NoRoute EXCEPT !.kind = kind, !.body = body]
       IN  IF issues # <<>>
           THEN /\ route' = [r EXCEPT !.pc = "done",
                                      !.resp = invalidBody(kind, issues),
                                      !.log = IF kind \in InlineKinds
                                              THEN <<"API Route Error:">> ELSE <<>>]
                /\ UNCHANGED dbVars
           ELSE /\ route' = [r EXCEPT !.pc = "connecting", !.connects = 1]
                /\ Invoke(RouteCaller, jobs)
    /\ UNCHANGED <<authVars, now, ticks, sessVars, client>>

\* Mutant: the handler is called whatever became of dbConnect.
withDatabase_RunsAnyway ==
    /\ route.pc = "connecting"
    /\ callers[RouteCaller].pc \in {"returned", "threw"}
    /\ \/ route.kind = "signUpRoute"
          /\ SignUpRouteFind(Main, route.body.email, route.body.password)
       \/ route.kind = "signIn"
          /\ SignInFind(Main, route.body.email, route.body.password)
       \/ route.kind = "signInInline"
          /\ SignInInlineFind(Main, route.body.email, route.body.password)
       \/ route.kind = "refreshSession"
          /\ RefreshStart(Main, route.body.accessToken, route.body.refreshToken)
       \/ route.kind = "refreshInline"
          /\ RefreshInlineStart(Main, route.body.accessToken, route.body.refreshToken)

\* withDatabase(handler), and `await dbConnect()` of the sign-up route, once
\* dbConnect has returned: the handler is called and runs to its first await.
withDatabase ==
    /\ route.pc = "connecting"
    /\ callers[RouteCaller].pc = "returned"
    /\ \/ route.kind = "signUpRoute"
          /\ SignUpRouteFind(Main, route.body.email, route.body.password)
       \/ route.kind = "signIn"
          /\ SignInFind(Main, route.body.email, route.body.password)
       \/ route.kind = "signInInline"
          /\ SignInInlineFind(Main, route.body.email, route.body.password)
       \/ route.kind = "refreshSession"
          /\ RefreshStart(Main, route.body.accessToken, route.body.refreshToken)
       \/ route.kind = "refreshInline"
          /\ RefreshInlineStart(Main, route.body.accessToken, route.body.refreshToken)

\* dbConnect threw: withDatabase rethrows and the handler is never called.
\* The routes that await withDatabase, and the sign-up route, catch the
\* error, log it and answer 500 with its message; the inline routes do not
\* await, so the rejection leaves POST.
RouteDbFailed ==
    /\ route.pc = "connecting"
    /\ callers[RouteCaller].pc = "threw"
    /\ req[Main].pc = "idle"
    /\ route' = IF route.kind \in InlineKinds
                THEN [route EXCEPT !.pc = "done", !.resp = Unhandled,
                                   !.escaped = ConnectError]
                ELSE [route EXCEPT !.pc = "done",
                                   !.resp = internalServerError(ConnectError),
                                   !.log = <<ConnectError.message>>]
    /\ UNCHANGED <<authVars, now, ticks, dbVars, sessVars, client>>

\* The handler returned: its response is the route's response.  A 500 made
\* by a catch block was logged there.
RouteReturn ==
    /\ route.pc = "connecting"
    /\ req[Main].pc = "done"
    /\ LET resp == req[Main].resp
       IN  route' = [route EXCEPT !.pc = "done", !.resp = resp,
                        !.trace = req[Main].trace,
                        !.log = IF resp.status = 500 /\ "errors" \in DOMAIN resp
                                THEN <<resp.errors[1].detail>> ELSE <<>>]
    /\ req' = [req EXCEPT ![Main] = Idle]
    /\ UNCHANGED <<env, store, nextId, now, ticks, issued>>
    /\ UNCHANGED <<dbVars, sessVars, client>>

NextRoute ==
    \/ \E kind \in RouteKinds : \E body \in RouteBodies(kind) : RouteRequest(kind, body)
    \/ \E i \in AttemptIds : Settle(i, "fulfilled")
    \/ \E i \in AttemptIds : Settle(i, "rejected")
    \/ Resume(FALSE)
    \/ withDatabase
    \/ RouteDbFailed
    \/ SignUpRouteCreate(Main)
    \/ SignInCompare(Main)
    \/ SignInInlineCompare(Main)
    \/ RefreshFind(Main)
    \/ RefreshResume(Main)
    \/ RefreshInlineFind(Main)
    \/ RefreshInlineResume(Main)
    \/ RouteReturn

----------------------------------------------------------------------------
(* The HTTP client: request() with withAuth and an access token *)

NoToken == [absent |-> TRUE]
NoCallback == "none"

\* How long ago the access token in hand was issued, in seconds
ClientAges == {0, 600, 601, 901}
\* What onTokenRefresh may be: not supplied, a function that returns, a
\* function that throws
Callbacks == {NoCallback, "returns", "throws"}
\* How the fetch of /api/auth/refresh may end: a 200 with the API's payload,
\* a 200 whose body has no data.token, a response that is not ok, a rejection
RefreshOutcomes == {"ok", "okNoToken", "rejected", "threw"}

ClientInit ==
    client = [pc |-> "idle", accessToken |-> NoToken, refreshToken |-> NoToken,
              onTokenRefresh |-> NoCallback, refreshCalls |-> 0, refreshOk |-> FALSE,
              answer |-> NoToken, callbackArgs |-> <<>>, sent |-> <<>>]

\* jwt.decode(accessToken): the payload, whoever signed it; null for a
\* string that is no JWT
jwtDecode(token) ==
    IF ~token.ok THEN Null
    ELSE [userId |-> token.userId, email |-> token.email, type |-> token.type,
          iat |-> token.iat, exp |-> token.exp]

\* Mutant: the refresh is attempted without an onTokenRefresh callback too.
wantsRefresh_IgnoresCallback(accessToken, refreshToken, onTokenRefresh) ==
    LET decoded == jwtDecode(accessToken)
    IN  IF decoded = Null THEN FALSE
        ELSE /\ now > decoded.exp - 60 * 5
             /\ refreshToken # NoToken

\* The condition of the refresh attempt; reading exp of an undecodable token
\* throws into the outer catch
wantsRefresh(accessToken, refreshToken, onTokenRefresh) ==
    LET decoded == jwtDecode(accessToken)
    IN  IF decoded = Null THEN FALSE
        ELSE /\ now > decoded.exp - 60 * 5
             /\ refreshToken # NoToken
             /\ onTokenRefresh # NoCallback

Bearer(token) == [scheme |-> "Bearer", token |-> token]

\* request(url, { withAuth: true, accessToken, refreshToken, onTokenRefresh })
\* up to its first fetch: that of /api/auth/refresh, or the main one
ClientRequest(accessToken, refreshToken, onTokenRefresh) ==
    /\ client.pc = "idle"
    /\ client' =
          IF wantsRefresh(accessToken, refreshToken, onTokenRefresh)
          THEN [pc |-> "refreshing", accessToken |-> accessToken,
                refreshToken |-> refreshToken, onTokenRefresh |-> onTokenRefresh,
                refreshCalls |-> 1, refreshOk |-> FALSE, answer |-> NoToken,
                callbackArgs |-> <<>>, sent |-> <<>>]
          ELSE [pc |-> "sent", accessToken |-> accessToken,
                refreshToken |-> refreshToken, onTokenRefresh |-> onTokenRefresh,
                refreshCalls |-> 0, refreshOk |-> FALSE, answer |-> NoToken,
                callbackArgs |-> <<>>, sent |-> <<Bearer(accessToken)>>]
    /\ UNCHANGED <<authVars, now, ticks, dbVars, sessVars, route>>

\* Mutant: the callback is called before the response is looked at.
afterRefresh_CallsBackAnyway(c, outcome, pair) ==
    IF outcome = "ok" /\ c.onTokenRefresh = "returns"
    THEN [args |-> <<pair>>, header |-> Bearer(pair.access)]
    ELSE [args |-> <<pair>>, header |-> Bearer(c.accessToken)]

\* What follows the fetch of /api/auth/refresh: the callback's arguments
\* and the Authorization header of the main request
afterRefresh(c, outcome, pair) ==
    IF outcome = "ok"
    THEN IF c.onTokenRefresh = "throws"
         THEN [args |-> <<pair>>, header |-> Bearer(c.accessToken)]
         ELSE [args |-> <<pair>>, header |-> Bearer(pair.access)]
    ELSE [args |-> <<>>, header |-> Bearer(c.accessToken)]

\* The refresh fetch has ended and the main request is sent.
ClientRefreshAnswer(outcome, u) ==
    /\ client.pc = "refreshing"
    /\ LET r == afterRefresh(client, outcome, PairIssuedAt(u, now))
       IN  client' = [client EXCEPT !.pc = "sent",
                                    !.refreshOk = outcome \in {"ok", "okNoToken"},
                                    !.answer = IF outcome = "ok"
                                               THEN PairIssuedAt(u, now)
                                               ELSE NoToken,
                                    !.callbackArgs = r.args,
                                    !.sent = <<r.header>>]
    /\ UNCHANGED <<authVars, now, ticks, dbVars, sessVars, route>>

\* The response of the main request has come back; request() can be called again.
ClientDone ==
    /\ client.pc = "sent"
    /\ client' = [client EXCEPT !.pc = "idle"]
    /\ UNCHANGED <<authVars, now, ticks, dbVars, sessVars, route>>

ClientTokens ==
    {[PairIssuedAt(u, now - a).access EXCEPT !.sig = k] :
        u \in SessionUsers, a \in ClientAges, k \in {"k1", "attacker"}}
        \cup {Malformed}

NextClient ==
    \/ \E a \in ClientTokens, r \in {NoToken, PairIssuedAt(1, now).refresh},
          cb \in Callbacks : ClientRequest(a, r, cb)
    \/ \E o \in RefreshOutcomes, u \in SessionUsers : ClientRefreshAnswer(o, u)
    \/ ClientDone

----------------------------------------------------------------------------
(* The specifications *)

Init == AuthInit /\ DbInit /\ SessionInit /\ RouteInit /\ ClientInit

\* Sign-up, sign-in and refresh, one request at a time
Spec == Init /\ [][Next]_vars

\* Concurrent registrations
SpecSignUp == Init /\ [][NextSignUp]_vars

\* Sign-in and refresh over accounts of the signUp service
SpecTokens == Init /\ [][NextTokens]_vars

\* Runs of request() with an access token
SpecClient == Init /\ [][NextClient]_vars

\* The signIn server action over every answer of the sign-in API
SpecSignIn == Init /\ [][NextSignIn]_vars

\* The routes, from the request body to the response
SpecRoute == Init /\ [][NextRoute]_vars

\* Concurrent dbConnect callers
SpecDb == Init /\ [][NextDb]_vars

\* The session cookie in a browser that keeps it as it was set
SpecSession == Init /\ [][NextSession]_vars

\* The session cookie in the hands of a client that edits it
SpecCookie == Init /\ [][NextCookie]_vars

----------------------------------------------------------------------------
(* Vocabulary of the properties *)

SignUpOps == {"signUpRoute", "signUp"}
SignInOps == {"signInInline", "signIn"}
RefreshOps == {"refreshSession", "refreshInline"}

RefreshSteps == <<"decode", "verify", "compare", "find", "generate">>

IsPrefix(s, t) == Len(s) <= Len(t) /\ s = SubSeq(t, 1, Len(s))

Finished(p, ops) == req[p].pc = "done" /\ req[p].op \in ops

Detail(r) == r.resp.errors[1].detail
Attr(r) == r.resp.errors[1].attr

\* The failure each variant reports at step k of the refresh algorithm
RefreshFailure(op, k) ==
    CASE k = 1 -> "Invalid access token"
      [] k = 2 -> "Invalid or expired refresh token"
      [] k = 3 -> IF op = "refreshInline"
                  THEN "Token mismatch - tokens belong to different users"
                  ELSE "Token mismatch"
      [] k = 4 -> "User not found"

\* The request failed at step k: a 401 naming that step, and nothing ran after it
FailedAt(r, k) ==
    /\ r.resp.status = 401
    /\ r.resp.code = "UNAUTHORIZED"
    /\ Detail(r) = RefreshFailure(r.op, k)
    /\ r.trace = SubSeq(RefreshSteps, 1, k)
    /\ r.op = "refreshSession" => r.thrown = ApiError(RefreshFailure(r.op, k), 401)

Succeeded(r) == r.resp.status = 200 /\ r.resp.data.token \in issued

----------------------------------------------------------------------------
(* C1: for every (userId, email) and at every time, verifyRefreshToken      *)
(* returns null for a token made by generateAccessToken and                *)
(* decodeAccessToken returns null for a token made by generateRefreshToken:*)
(* a token of one type is never accepted in the place of the other.        *)

C1_TokenTypesNeverConfused ==
    /\ \A pair \in issued :
          /\ verifyRefreshToken(pair.access) = Null
          /\ decodeAccessToken(pair.refresh) = Null
    /\ \A id \in ObjectIds, e \in Emails :
          LET payload == [userId |-> stringifyObjectId(id), email |-> e]
          IN  /\ verifyRefreshToken(generateAccessToken(payload)) = Null
              /\ decodeAccessToken(generateRefreshToken(payload)) = Null
    /\ \A p \in Procs :
          (Finished(p, RefreshOps) /\ req[p].access.ok /\ req[p].refresh.ok
             /\ (req[p].access.type # "access" \/ req[p].refresh.type # "refresh"))
          => req[p].resp.status = 401

\* Both secrets are the same string, so only the discriminator tells the two
\* types apart, and a refresh that presented an unexpired pair with its
\* tokens in each other's place has been refused.
C1_Witness ==
    /\ env.JWT_ACCESS_SECRET = env.JWT_REFRESH_SECRET
    /\ \E p \in Procs, pair \in issued :
          /\ Finished(p, RefreshOps)
          /\ req[p].access = pair.refresh /\ req[p].refresh = pair.access
          /\ now < pair.access.exp
          /\ req[p].resp.status = 401

----------------------------------------------------------------------------
(* C2: refresh checks in the fixed order decode access token, verify       *)
(* refresh token, compare userId, look up the user; the failure reported   *)
(* is that of the first violated step, every failure is a 401, and no      *)
(* later step runs after a failure (no store query before step 4, no token *)
(* generated).                                                             *)

C2_RefreshChecksInOrder ==
    \A p \in Procs :
      LET r == req[p]
          a == decodeAccessToken(r.access)
          v == verifyRefreshToken(r.refresh)
          \* The handler returned before its first await: the clock is still
          \* the one the checks read.
          early == Len(r.trace) <= 3
      IN  r.op \in RefreshOps =>
            /\ IsPrefix(r.trace, RefreshSteps)
            /\ r.pc = "done" =>
                 /\ a = Null => FailedAt(r, 1)
                 /\ (a # Null /\ early /\ v = Null) => FailedAt(r, 2)
                 /\ (a # Null /\ early /\ v # Null) =>
                       FailedAt(r, 3) /\ (a.userId # v.userId \/ a.email # v.email)
                 /\ ~early =>
                       /\ a # Null
                       /\ a.userId = r.refresh.userId
                       /\ r.user = NoUser => FailedAt(r, 4)
                       /\ r.user # NoUser => Succeeded(r) /\ r.trace = RefreshSteps
                 /\ r.resp.status \in {200, 401}
                 /\ r.resp.status = 401 => \A i \in 1..Len(r.trace) : r.trace[i] # "generate"

\* Two steps are violated at once and the earlier one is reported: the
\* refresh token is invalid and, had it been accepted, its userId would not
\* match the access token's.
C2_Witness ==
    \E p \in Procs :
        /\ Finished(p, RefreshOps)
        /\ decodeAccessToken(req[p].access) # Null
        /\ verifyRefreshToken(req[p].refresh) = Null
        /\ req[p].refresh.ok
        /\ req[p].refresh.userId # req[p].access.userId
        /\ FailedAt(req[p], 2)

----------------------------------------------------------------------------
(* C3: whenever the access token's userId differs from the refresh token's *)
(* userId, refresh is rejected with the 401 token-mismatch failure and no  *)
(* new pair is issued, even though the access token decodes and the        *)
(* refresh token is valid and unexpired.                                   *)

C3_MismatchedUserIdsRejected ==
    \A p \in Procs :
      LET r == req[p]
          a == decodeAccessToken(r.access)
          v == verifyRefreshToken(r.refresh)
      IN  (Finished(p, RefreshOps) /\ a # Null /\ v # Null /\ a.userId # v.userId)
            => /\ FailedAt(r, 3)
               /\ "data" \notin DOMAIN r.resp

C3_Witness ==
    \E p \in Procs, pa \in issued, pr \in issued :
        /\ Finished(p, RefreshOps)
        /\ req[p].access = pa.access /\ req[p].refresh = pr.refresh
        /\ pa.access.userId # pr.refresh.userId
        /\ now < pa.access.exp /\ now < pr.refresh.exp
        /\ FailedAt(req[p], 3)

----------------------------------------------------------------------------
(* C4: at every time after issuance decodeAccessToken accepts a correctly  *)
(* signed access token, expired or not; verifyRefreshToken accepts a       *)
(* correctly signed refresh token exactly while the clock is before its    *)
(* exp.  So the refresh checks pass however long ago the access token      *)
(* expired, and a refresh that presents an expired refresh token is        *)
(* refused on the spot.                                                    *)

C4_TokensAcceptedAtThisTime ==
    /\ \A pair \in issued :
          /\ decodeAccessToken(pair.access) # Null
          /\ verifyRefreshToken(pair.refresh) # Null <=> now < pair.refresh.exp
    /\ \A pa \in issued, pr \in issued :
          LET c == refreshSessionChecks(pa.access, pr.refresh)
              ci == refreshInlineChecks(pa.access, pr.refresh)
          IN  /\ now >= pr.refresh.exp =>
                    /\ c.error = ApiError(RefreshFailure("refreshSession", 2), 401)
                    /\ ci.resp = Unauthorized(RefreshFailure("refreshInline", 2), "refreshToken")
              /\ (now < pr.refresh.exp /\ pa.access.userId = pr.refresh.userId) =>
                    c.error = NoError /\ ci.resp = NoResp

C4_ExpiredRefreshTokenRefused ==
    \A p \in Procs :
        (/\ req[p].pc = "idle"
         /\ req'[p].op \in RefreshOps
         /\ req'[p].refresh.ok
         /\ now >= req'[p].refresh.exp)
        => /\ req'[p].pc = "done"
           /\ req'[p].resp.status = 401
           /\ issued' = issued

C4_AccessExpiryIgnoredRefreshExpiryEnforced ==
    []C4_TokensAcceptedAtThisTime /\ [][C4_ExpiredRefreshTokenRefused]_vars

\* A refresh has succeeded with an access token as old as a refresh token's
\* whole lifetime.
C4_Witness ==
    \E p \in Procs :
        /\ Finished(p, RefreshOps)
        /\ Succeeded(req[p])
        /\ now >= req[p].access.iat + RefreshTTL

----------------------------------------------------------------------------
(* C5: a refresh called with the pair a sign-in has just returned succeeds *)
(* and returns an access token different from the original access token    *)
(* and a refresh token different from the original refresh token.          *)

C5_RefreshReturnsDifferentTokens ==
    \A p \in Procs :
      LET r == req[p]
      IN  (/\ Finished(p, RefreshOps)
           /\ [access |-> r.access, refresh |-> r.refresh] \in issued
           /\ now < r.refresh.exp
           /\ findUserByEmail(r.refresh.email) # NoUser)
          => /\ Succeeded(r)
             /\ r.resp.data.token.access # r.access
             /\ r.resp.data.token.refresh # r.refresh

----------------------------------------------------------------------------
(* C6: rotation is stateless: whatever refreshes have succeeded since,     *)
(* every pair ever issued whose refresh token is unexpired passes the      *)
(* refresh checks as long as a user record exists for its e-mail; issuing  *)
(* a new pair invalidates no older one.                                    *)

C6_OldPairsStillAccepted ==
    \A pair \in issued :
        (now < pair.refresh.exp /\ findUserByEmail(pair.refresh.email) # NoUser)
        => /\ refreshSessionChecks(pair.access, pair.refresh).error = NoError
           /\ refreshInlineChecks(pair.access, pair.refresh).resp = NoResp

\* A pair that has already been rotated (a newer pair of the same user is
\* out) was presented again, and the refresh succeeded.
C6_Witness ==
    \E p \in Procs, old \in issued, new \in issued :
        /\ Finished(p, RefreshOps)
        /\ req[p].access = old.access /\ req[p].refresh = old.refresh
        /\ new.refresh.userId = old.refresh.userId
        /\ new.refresh.iat > old.refresh.iat
        /\ Succeeded(req[p])

----------------------------------------------------------------------------
(* C7: sign-in with an existing e-mail and a wrong password and sign-in    *)
(* with an e-mail that has no record produce the same error response       *)
(* (status, code, detail, attr).                                           *)

\* What each variant answers when no record has the e-mail
UnknownEmailResponse(op) ==
    IF op = "signInInline" THEN signInInlineLookup(NoUser)
    ELSE SignInCatch(signInLookup(NoUser))

C7_SignInFailuresIdentical ==
    \A p \in Procs :
        (Finished(p, SignInOps) /\ req[p].resp.status = 401)
        => req[p].resp = UnknownEmailResponse(req[p].op)

----------------------------------------------------------------------------
(* C8: signIn returns a token pair if and only if a record exists for the  *)
(* e-mail, the record has a password hash and the password matches it; in  *)
(* every other case it fails with the 401 invalid-credentials error and    *)
(* issues no token.                                                        *)

C8_SignInIffCredentialsMatch ==
    \A p \in Procs :
      LET r == req[p]
          u == r.user
          matches == /\ u # NoUser
                     /\ u.password # NoHash
                     /\ u.password.plain = r.password
      IN  Finished(p, {"signIn"}) =>
            /\ Len(r.trace) = 1 => u = findUserByEmail(r.email)
            /\ u # NoUser => u.email = EmailSetter(r.email)
            /\ matches =>
                  /\ Succeeded(r)
                  /\ r.thrown = NoError
                  /\ r.resp.data.token.access.userId = stringifyObjectId(u._id)
                  /\ r.resp.data.token.refresh.userId = stringifyObjectId(u._id)
            /\ ~matches =>
                  /\ r.thrown = ApiError("Invalid email or password", 401)
                  /\ r.resp.status = 401
                  /\ "data" \notin DOMAIN r.resp
                  /\ \A i \in 1..Len(r.trace) : r.trace[i] # "generate"

C8_Witness ==
    \E p \in Procs :
        /\ Finished(p, {"signIn"})
        /\ Succeeded(req[p])
        /\ req[p].email # req[p].user.email

----------------------------------------------------------------------------
(* C9: a sign-up whose existence check finds a record for the e-mail fails *)
(* with the 409 conflict error naming the e-mail and leaves the store as   *)
(* it is; a sign-up whose insert meets no record for the e-mail creates    *)
(* exactly one record and returns 201.                                     *)

Conflict(r) ==
    IF r.op = "signUpRoute"
    THEN /\ r.resp.status = 409 /\ r.resp.code = "CONFLICT"
         /\ Attr(r) = "email"
         /\ Detail(r) = "User already exists with this email"
    ELSE r.thrown = ApiError("User already exists with this email", 409)

Created(r) ==
    IF r.op = "signUpRoute"
    THEN r.resp.status = 201 /\ r.resp.code = "CREATED"
    ELSE r.thrown = NoError /\ "returned" \in DOMAIN r.resp

HasRecord(email) == \E u \in store : u.email = EmailSetter(email)

C9_SignUpStep ==
    \A p \in Procs :
        /\ (req[p].pc = "idle" /\ req'[p].op \in SignUpOps) =>
              /\ store' = store
              /\ IF HasRecord(req'[p].email)
                 THEN req'[p].pc = "done" /\ Conflict(req'[p])
                 ELSE req'[p].pc = "create"
        /\ (req[p].op \in SignUpOps /\ req[p].pc = "create" /\ req'[p].pc = "done"
              /\ ~HasRecord(req[p].email)) =>
              /\ Created(req'[p])
              /\ \E u \in store' :
                    /\ u \notin store
                    /\ store' = store \cup {u}
                    /\ u.email = EmailSetter(req[p].email)
                    /\ u.password = bcryptHash(req[p].password)
              /\ Cardinality(store') = Cardinality(store) + 1

C9_SignUpConflictOrCreate == [][C9_SignUpStep]_vars

\* A registration under "A" was refused because "a" is registered.
C9_Witness ==
    \E p \in Procs :
        /\ Finished(p, SignUpOps)
        /\ Conflict(req[p])
        /\ req[p].email # req[p].user.email
        /\ Cardinality(store) = 1

----------------------------------------------------------------------------
(* C10: under any interleaving of concurrent sign-ups the store never      *)
(* holds two records with the same normalized e-mail, and every sign-up    *)
(* that finds or collides with a record for its e-mail ends with the 409   *)
(* conflict error.                                                         *)

C10_ConcurrentSignUpsConflict ==
    /\ \A u1 \in store, u2 \in store : u1.email = u2.email => u1 = u2
    /\ \A p \in Procs :
          (Finished(p, SignUpOps) /\ ~Created(req[p])) => Conflict(req[p])

----------------------------------------------------------------------------
(* C11: whatever the number of dbConnect callers and however their steps   *)
(* interleave with the success or failure of connecting, at most one       *)
(* connection attempt is in flight at any time, and a caller that arrives  *)
(* while an attempt is pending awaits that attempt and starts none.        *)

Fulfilled == {i \in AttemptIds : attempts[i].state = "fulfilled"}
Rejected == {i \in AttemptIds : attempts[i].state = "rejected"}

\* c reaches its await in this step
Arrives(c) == callers[c].pc # "awaiting" /\ callers'[c].pc = "awaiting"

C11_AtMostOnePending == Cardinality(Pending) <= 1

C11_ArrivalSharesPending ==
    \A c \in DbCallers :
        (Arrives(c) /\ Pending # {})
        => /\ callers'[c].awaits \in Pending
           /\ \A i \in AttemptIds : attempts'[i].state = attempts[i].state

C11_OneAttemptInFlight ==
    []C11_AtMostOnePending /\ [][C11_ArrivalSharesPending]_vars

\* After a failed attempt, two callers await the one attempt that followed.
C11_Witness ==
    \E i \in Pending :
        /\ Len(attempts[i].reactions) >= 2
        /\ Rejected # {}

----------------------------------------------------------------------------
(* C12: when a connection attempt fails every caller awaiting it receives  *)
(* the error, the cached connection stays empty and the cached attempt is  *)
(* cleared; the next dbConnect call starts a fresh attempt, and no caller  *)
(* is ever handed an attempt that has already failed.                      *)

Queued(c) == \E k \in 1..Len(jobs) : jobs[k] = ResumeJob(c)

C12_FailureReachesEveryAwaiter ==
    /\ \A c \in DbCallers :
          /\ (callers[c].pc = "awaiting" /\ Settled(callers[c].awaits)) => Queued(c)
          /\ (callers[c].pc = "awaiting" /\ ~Settled(callers[c].awaits)) =>
                \E k \in 1..Len(attempts[callers[c].awaits].reactions) :
                    attempts[callers[c].awaits].reactions[k] = c
          /\ (callers[c].pc \in {"returned", "threw"} /\ callers[c].awaits # NoPromise) =>
                (callers[c].pc = "threw" <=> callers[c].awaits \in Rejected)
    /\ Fulfilled = {} => cached.conn = NoConn
    /\ (jobs = <<>> /\ cached.promise # NoPromise) => cached.promise \notin Rejected

C12_NextCallStartsAfresh ==
    \A c \in DbCallers :
        Arrives(c) =>
          /\ callers'[c].awaits \notin Rejected
          /\ (Pending = {} /\ Fulfilled = {}) =>
                /\ attempts[callers'[c].awaits].state = "unused"
                /\ attempts'[callers'[c].awaits].state = "pending"
                /\ cached'.promise = callers'[c].awaits

C12_FailedAttemptCleared ==
    []C12_FailureReachesEveryAwaiter /\ [][C12_NextCallStartsAfresh]_vars

\* Two callers awaited the attempt that failed and both got its error; a
\* third, calling afterwards, awaits a new attempt.
C12_Witness ==
    \E c1 \in DbCallers, c2 \in DbCallers, c3 \in DbCallers :
        /\ c1 # c2
        /\ callers[c1].pc = "threw" /\ callers[c2].pc = "threw"
        /\ callers[c1].awaits = callers[c2].awaits
        /\ callers[c3].pc = "awaiting"
        /\ callers[c3].awaits \in Pending
        /\ cached.conn = NoConn

----------------------------------------------------------------------------
(* C13: once a connection attempt has succeeded, no further attempt is     *)
(* ever started and every later dbConnect call returns the connection of   *)
(* that attempt.                                                           *)

C13_OneConnection ==
    /\ Cardinality(Fulfilled) <= 1
    /\ \A c \in DbCallers :
          callers[c].pc = "returned" =>
              /\ callers[c].result \in Fulfilled
              /\ callers[c].result = cached.conn

C13_NoAttemptAfterSuccess ==
    Fulfilled # {} =>
        /\ \A i \in AttemptIds : attempts'[i].state = attempts[i].state
        /\ \A c \in DbCallers :
              callers'[c] # callers[c] =>
                  \/ callers'[c].pc = "awaiting" /\ callers'[c].awaits \in Fulfilled
                  \/ callers'[c].pc = "returned" /\ callers'[c].result \in Fulfilled

C13_ConnectOnceReuse ==
    []C13_OneConnection /\ [][C13_NoAttemptAfterSuccess]_vars

\* The second attempt succeeded; one caller got its connection from the
\* await and another from the cache, without awaiting anything.
C13_Witness ==
    \E c1 \in DbCallers, c2 \in DbCallers :
        /\ callers[c1].pc = "returned" /\ callers[c1].awaits \in Fulfilled
        /\ callers[c2].pc = "returned" /\ callers[c2].awaits = NoPromise
        /\ callers[c2].result = callers[c1].result
        /\ Rejected # {}

----------------------------------------------------------------------------
(* C14: for every session record S and every IV, decryptSession applied to *)
(* encryptSession(JSON.stringify(S)) gives back the text JSON.stringify(S): *)
(* what the server sealed into the cookie is what it reads out of it.       *)

C14_RoundTrip ==
    session.data # NoSession =>
        /\ \A iv \in Ivs :
              decryptSession(encryptSession(JSONstringify(session.data), iv))
                  = [text |-> JSONstringify(session.data)]
        /\ decryptSession(session.sealed) = [text |-> JSONstringify(session.data)]

\* A record sealed under the IV that is not all zeroes was read back from
\* the cookie as it was created.
C14_Witness ==
    /\ session.op = "getSession"
    /\ session.data # NoSession
    /\ session.sealed = encryptSession(JSONstringify(session.data), <<18, 52, 171, 205>>)
    /\ jar # NoCookie /\ jar.value = session.sealed
    /\ session.got = [value |-> session.data]

----------------------------------------------------------------------------
(* C15: decryptSession never throws, and it returns null for a blob sealed *)
(* under another secret and for a blob that was tampered with: whenever it *)
(* returns plaintext, the blob is the one encryptSession produced under    *)
(* the current secret.                                                     *)

C15_DecryptFailsClosed ==
    jar # NoCookie =>
        LET decrypted == decryptSession(jar.value)
        IN  /\ ~Threw(decrypted)
            /\ decrypted # Null => jar.value = session.sealed

\* The part of C15 about the other secret
C15_OtherSecretIsNull ==
    session.op \in {"foreign", "getSession"} /\ session.sealed = <<>> /\ session.edits = 0
        /\ jar # NoCookie
        => decryptSession(jar.value) = Null

----------------------------------------------------------------------------
(* C16: decryptSession returns null for every string that does not split   *)
(* on ':' into exactly two parts, whatever the parts are, and getSession    *)
(* then reports no session.                                                 *)

C16_NotTwoPartsIsNull ==
    /\ jar # NoCookie /\ Len(split(jar.value, Colon)) # 2 =>
          /\ decryptSession(jar.value) = Null
          /\ session.op = "getSession" => session.got = Null
    /\ session.sealed # <<>> =>
          \A str \in {session.sealed \o <<Colon>>,
                      <<Colon>> \o session.sealed,
                      session.sealed \o <<Colon>> \o session.sealed,
                      SelectSeq(session.sealed, LAMBDA c : c # Colon)} :
              decryptSession(str) = Null

\* The cookie is a sealed record with one more colon at its end, and
\* getSession answered null.
C16_Witness ==
    /\ session.op = "getSession"
    /\ session.sealed # <<>>
    /\ jar # NoCookie /\ jar.value = session.sealed \o <<Colon>>
    /\ session.got = Null

----------------------------------------------------------------------------
(* C17: getSession never raises: whatever the cookie holds, it returns     *)
(* null or a session record.                                               *)

C17_GetSessionNeverRaises ==
    session.op = "getSession" =>
        /\ ~Threw(session.got)
        /\ \/ session.got = Null
           \/ \E c \in JsonCodes : session.got = [value |-> JsonValue(c)]

----------------------------------------------------------------------------
(* C18: the cookie written at sign-in expires when the session record      *)
(* does, and the record the signIn action hands to createSession has the   *)
(* expiry timestamp (the access token's exp) and the remember flag under   *)
(* the names createSession reads.                                          *)

C18_SignInCookieExpiry ==
    session.op = "signIn" =>
        /\ DOMAIN session.data = {"user", "token", "expirate", "remember"}
        /\ session.data.expirate = session.data.token.access.exp
        /\ jar # NoCookie
        /\ jar.expires = session.data.expirate

----------------------------------------------------------------------------
(* C19: getSession returns a record only between a createSession and the   *)
(* next purgeSession, null after a purgeSession until the next             *)
(* createSession, and the record it returns is the one of the most recent  *)
(* createSession, which replaced whatever the cookie held.                 *)

----------------------------------------------------------------------------
(* C20: verifyRefreshToken and decodeAccessToken never throw; they return  *)
(* the claims of a token exactly when it is well formed, signed with the   *)
(* secret of its kind, of the expected type and, for the refresh token,    *)
(* not expired; for every other input they return null.                    *)

C20_Claims(t) ==
    [userId |-> t.userId, email |-> t.email, type |-> t.type, iat |-> t.iat, exp |-> t.exp]

C20_Inputs ==
    LET handed == IF session.data = NoSession THEN {}
                  ELSE {session.data.token.access, session.data.token.refresh}
    IN  handed \cup {Forge(t) : t \in handed} \cup {Malformed}

C20_VerifiersNeverThrow ==
    \A t \in C20_Inputs :
        LET refresh == verifyRefreshToken(t)
            access == decodeAccessToken(t)
            goodRefresh == t.ok /\ t.sig = env.JWT_REFRESH_SECRET
                               /\ t.type = "refresh" /\ now < t.exp
            goodAccess == t.ok /\ t.sig = env.JWT_ACCESS_SECRET /\ t.type = "access"
        IN  /\ ~Threw(refresh) /\ ~Threw(access)
            /\ refresh = IF goodRefresh THEN C20_Claims(t) ELSE Null
            /\ access = IF goodAccess THEN C20_Claims(t) ELSE Null

\* The pair of the session has outlived its refresh token: that token is
\* refused, the access token still decodes, and the forged tokens and the
\* string that is no token give null.
C20_Witness ==
    /\ session.data # NoSession
    /\ LET p == session.data.token
       IN  /\ now >= p.refresh.exp
           /\ verifyRefreshToken(p.refresh) = Null
           /\ decodeAccessToken(p.access) = C20_Claims(p.access)
           /\ decodeAccessToken(p.refresh) = Null
           /\ verifyRefreshToken(Forge(p.refresh)) = Null
           /\ decodeAccessToken(Forge(p.access)) = Null
           /\ verifyRefreshToken(Malformed) = Null

----------------------------------------------------------------------------
(* C21: when the account of the refresh token's e-mail is gone at the time *)
(* refresh looks it up, refresh answers 401 "User not found" and hands out *)
(* no pair, although the access token decoded, the refresh token was valid *)
(* and both carried the same userId.                                       *)

C21_UserGone(r) ==
    /\ r.op \in RefreshOps
    /\ r.pc = "resume"
    /\ r.user = NoUser

C21_RefusedWithoutTokens ==
    \A p \in Procs :
        C21_UserGone(req[p]) /\ req'[p] # req[p] =>
            /\ req'[p].pc = "done"
            /\ FailedAt(req'[p], 4)
            /\ "data" \notin DOMAIN req'[p].resp
            /\ issued' = issued

C21_LookupDecides ==
    \A p \in Procs :
        (Finished(p, RefreshOps) /\ Len(req[p].trace) > 3 /\ req[p].user = NoUser) =>
            /\ FailedAt(req[p], 4)
            /\ "data" \notin DOMAIN req[p].resp
            /\ decodeAccessToken(req[p].access) # Null
            /\ req[p].access.userId = req[p].refresh.userId

C21_DeletedUserCannotRefresh ==
    []C21_LookupDecides /\ [][C21_RefusedWithoutTokens]_vars

\* The pair a sign-in handed out is presented unexpired after the account
\* was deleted, and the refresh has been refused at the lookup.
C21_Witness ==
    \E p \in Procs, pair \in issued :
        /\ Finished(p, RefreshOps)
        /\ req[p].access = pair.access /\ req[p].refresh = pair.refresh
        /\ now < pair.refresh.exp
        /\ verifyRefreshToken(pair.refresh) # Null
        /\ \A u \in store : u.email # pair.refresh.email
        /\ FailedAt(req[p], 4)

----------------------------------------------------------------------------
(* C22: a credential failure is answered the same way whatever caused it:  *)
(* every 401 of a refresh, whether for an invalid access token, an invalid *)
(* or expired refresh token, a mismatch or a deleted account, is the       *)
(* response given for an invalid access token.  (The 401s of sign-in are   *)
(* compared in C7.)                                                        *)

InvalidAccessTokenResponse(op) ==
    IF op = "refreshInline" THEN refreshInlineChecks(Malformed, Malformed).resp
    ELSE RefreshCatch(refreshSessionChecks(Malformed, Malformed).error)

C22_CredentialErrorsIndistinguishable ==
    \A p \in Procs :
        (Finished(p, RefreshOps) /\ req[p].resp.status = 401)
            => req[p].resp = InvalidAccessTokenResponse(req[p].op)

\* The part of C22 that holds: every credential failure is a 401 with the
\* code UNAUTHORIZED and a single error entry.
C22_AlwaysUnauthorized ==
    \A p \in Procs :
        (Finished(p, SignInOps \cup RefreshOps) /\ req[p].resp.status \notin {200, 500})
            => /\ req[p].resp.status = 401
               /\ req[p].resp.code = "UNAUTHORIZED"
               /\ Len(req[p].resp.errors) = 1

----------------------------------------------------------------------------
(* C28: every pair ever handed out has an access token and a refresh token *)
(* with the same (userId, email), which are the id and e-mail of the       *)
(* account the operation read from the store; and the pair a refresh hands *)
(* out carries the userId of the refresh token that was presented.         *)

C28_TokenProvenance ==
    /\ \A pair \in issued :
          /\ pair.access.userId = pair.refresh.userId
          /\ pair.access.email = pair.refresh.email
    /\ \A p \in Procs :
          (Finished(p, SignInOps \cup RefreshOps) /\ req[p].resp.status = 200) =>
              LET pair == req[p].resp.data.token
              IN  /\ pair \in issued
                  /\ req[p].user # NoUser
                  /\ pair.refresh.userId = stringifyObjectId(req[p].user._id)
                  /\ pair.refresh.email = req[p].user.email
                  /\ req[p].op \in RefreshOps =>
                        pair.refresh.userId = req[p].refresh.userId

\* The part of C28 that holds: the pair is made from the account that was
\* read, and both tokens carry the same claims.
C28_PairOfAccountRead ==
    /\ \A pair \in issued :
          /\ pair.access.userId = pair.refresh.userId
          /\ pair.access.email = pair.refresh.email
    /\ \A p \in Procs :
          (Finished(p, SignInOps \cup RefreshOps) /\ req[p].resp.status = 200) =>
              /\ req[p].user # NoUser
              /\ req[p].resp.data.token.refresh.userId = stringifyObjectId(req[p].user._id)
              /\ req[p].resp.data.token.refresh.email = req[p].user.email

----------------------------------------------------------------------------
(* C29: there is no absolute session lifetime.  Every pair a refresh hands *)
(* out has a refresh token that expires a full seven days after that       *)
(* refresh, whatever the age of the tokens presented, and a pair whose     *)
(* refresh token has not expired passes the checks of refresh however long *)
(* ago the first sign-in was: so a client that refreshes within every      *)
(* seven days is never sent back to sign-in.  Once every refresh token     *)
(* handed out has expired, every refresh is refused on the spot and only a *)
(* sign-in adds a pair.                                                    *)

C29_AllExpired == \A pair \in issued : now >= pair.refresh.exp

C29_UnexpiredPairPasses ==
    \A pair \in issued :
        now < pair.refresh.exp =>
            /\ refreshSessionChecks(pair.access, pair.refresh).error = NoError
            /\ refreshInlineChecks(pair.access, pair.refresh).resp = NoResp

C29_RefreshStep ==
    \A p \in Procs :
        /\ (req[p].op \in RefreshOps /\ req[p].pc = "resume" /\ issued' # issued) =>
              LET pair == req'[p].resp.data.token
              IN  /\ issued' = issued \cup {pair}
                  /\ pair.refresh.iat = now
                  /\ pair.refresh.exp = now + RefreshTTL
                  /\ pair.access.exp = now + AccessTTL
                  /\ verifyRefreshToken(pair.refresh) # Null
        /\ (C29_AllExpired /\ req[p].pc = "idle" /\ req'[p].op \in RefreshOps) =>
              /\ req'[p].pc = "done"
              /\ req'[p].resp.status = 401
              /\ issued' = issued
        /\ (C29_AllExpired /\ issued' # issued /\ req'[p] # req[p]) =>
              req[p].op \in SignInOps \/ req[p].pc = "resume"

C29_NoAbsoluteLifetime ==
    []C29_UnexpiredPairPasses /\ [][C29_RefreshStep]_vars

\* A refresh with an issued pair, some time after it was handed out, has
\* returned a pair whose refresh token outlives the one presented.
C29_Witness ==
    \E p \in Procs :
        /\ Finished(p, RefreshOps)
        /\ Succeeded(req[p])
        /\ [access |-> req[p].access, refresh |-> req[p].refresh] \in issued
        /\ req[p].resp.data.token.refresh.exp > req[p].refresh.exp
        /\ req[p].resp.data.token.refresh.exp = now + RefreshTTL

----------------------------------------------------------------------------
(* C25: in request() with withAuth and an access token, the refresh is     *)
(* called before the main request exactly when the clock is past the       *)
(* token's exp minus five minutes and a refresh token and an               *)
(* onTokenRefresh callback were supplied; the main request is then sent    *)
(* once, with one bearer token; onTokenRefresh is called once, with the    *)
(* new pair, exactly when the refresh answered ok with a pair in its body; *)
(* and the bearer token is the new access token exactly when the refresh   *)
(* answered ok with a pair and onTokenRefresh returned, the original       *)
(* access token in every other case.                                       *)

C25_Due ==
    LET decoded == jwtDecode(client.accessToken)
    IN  /\ decoded # Null
        /\ now > decoded.exp - 300
        /\ client.refreshToken # NoToken
        /\ client.onTokenRefresh # NoCallback

C25_RefreshBeforeRequest ==
    client.pc \in {"refreshing", "sent"} =>
        /\ client.refreshCalls = (IF C25_Due THEN 1 ELSE 0)
        /\ client.pc = "refreshing" => client.sent = <<>> /\ client.callbackArgs = <<>>
        /\ client.pc = "sent" =>
              /\ Len(client.sent) = 1
              /\ client.callbackArgs =
                    (IF client.answer # NoToken THEN <<client.answer>> ELSE <<>>)
              /\ client.sent[1] =
                    (IF client.answer # NoToken /\ client.onTokenRefresh = "returns"
                     THEN Bearer(client.answer.access)
                     ELSE Bearer(client.accessToken))
              /\ client.answer # NoToken => client.refreshCalls = 1 /\ client.refreshOk

\* The refresh answered ok, the callback got the new pair and returned, and
\* the main request went out with the new access token, not the old one.
C25_Witness ==
    /\ client.pc = "sent"
    /\ client.refreshCalls = 1
    /\ client.refreshOk
    /\ client.onTokenRefresh = "returns"
    /\ client.callbackArgs = <<client.answer>>
    /\ client.sent = <<Bearer(client.answer.access)>>
    /\ client.answer.access # client.accessToken

\* C25 as it was stated: whenever the refresh responded ok, the callback
\* was called once and the new access token was sent.
C25_NewTokenWheneverRefreshOk ==
    client.pc = "sent" =>
        /\ client.refreshCalls = (IF C25_Due THEN 1 ELSE 0)
        /\ Len(client.sent) = 1
        /\ Len(client.callbackArgs) = (IF client.refreshOk THEN 1 ELSE 0)
        /\ client.refreshOk => client.sent[1] = Bearer(client.callbackArgs[1].access)
        /\ ~client.refreshOk => client.sent[1] = Bearer(client.accessToken)

----------------------------------------------------------------------------
(* C23: an unexpected exception in a route, such as a failed database      *)
(* connection, is answered with a generic 500 whose body holds no detail   *)
(* of the internal error: the message of the error that was thrown is in   *)
(* the server log only, never in the response.                             *)

InternalMessages == {ConnectError.message, MongoServerError.message, BcryptError.message}

C23_NoInternalDetailInBody ==
    (route.pc = "done" /\ route.resp.status = 500 /\ "errors" \in DOMAIN route.resp)
    => \A i \in 1..Len(route.resp.errors) :
          route.resp.errors[i].detail \notin InternalMessages

----------------------------------------------------------------------------
(* C24: in every auth route a body that fails schema validation is         *)
(* answered 400 BAD_REQUEST with one error entry per validation issue,     *)
(* naming the field; and validation precedes everything else: for such a   *)
(* request dbConnect is not called, the store is not read and no token is  *)
(* issued.                                                                 *)

C24_Refused == route.pc = "done" /\ safeParse(route.kind, route.body) # <<>>

C24_InvalidBodyIs400 ==
    C24_Refused =>
        LET issues == safeParse(route.kind, route.body)
        IN  /\ route.resp.status = 400
            /\ route.resp.code = "BAD_REQUEST"
            /\ Len(route.resp.errors) = Len(issues)
            /\ \A i \in 1..Len(issues) :
                  route.resp.errors[i] =
                      [detail |-> issues[i].message, attr |-> issues[i].path[1]]
            /\ route.connects = 0
            /\ route.trace = <<>>

\* The part of C24 that holds in every route: a refused body is answered
\* in the step that parses it, without dbConnect, the store or a token.
C24_ValidationPrecedes ==
    [][(route'.pc = "done" /\ safeParse(route'.kind, route'.body) # <<>>)
       => /\ route'.connects = 0
          /\ route'.trace = <<>>
          /\ route'.resp.status \in {400, 500}
          /\ "data" \notin DOMAIN route'.resp
          /\ UNCHANGED <<dbVars, store, issued, req>>]_vars

----------------------------------------------------------------------------
(* C26: withDatabase calls its handler only when dbConnect has returned a  *)
(* connection: the handler does not start while the connection attempt is  *)
(* pending, and when the attempt fails the handler is never run and the    *)
(* connection error reaches the route, which answers 500 with it or lets   *)
(* it leave POST.                                                          *)

C26_HandlerStarts == req[Main].pc = "idle" /\ req'[Main].pc # "idle"

C26_NotBeforeConnected ==
    (route.pc = "connecting" /\ callers[RouteCaller].pc # "returned")
    => req[Main].pc = "idle"

C26_FailurePropagates ==
    (route.pc = "done" /\ route.connects = 1 /\ callers[RouteCaller].pc = "threw")
    => /\ route.trace = <<>>
       /\ req[Main].pc = "idle"
       /\ IF route.kind \in InlineKinds
          THEN route.escaped = ConnectError
          ELSE route.resp = internalServerError(ConnectError)

C26_HandlerOnlyAfterConnect ==
    /\ [](C26_NotBeforeConnected /\ C26_FailurePropagates)
    /\ [][C26_HandlerStarts =>
            /\ route.pc = "connecting"
            /\ callers[RouteCaller].pc = "returned"
            /\ cached.conn # NoConn
            /\ callers[RouteCaller].result = cached.conn]_vars

\* A first request met a failed connection attempt; the handler of a later
\* one is running on the connection of the second attempt.
C26_Witness ==
    /\ attempts[1].state = "rejected"
    /\ attempts[2].state = "fulfilled"
    /\ route.pc = "connecting"
    /\ req[Main].pc \notin {"idle", "done"}
    /\ cached.conn = 2

----------------------------------------------------------------------------
(* C27: the credentials signIn action writes the session cookie only when  *)
(* the sign-in API answered with data whose access token decodes as an     *)
(* access token; when the token does not decode it returns null and        *)
(* writes nothing, and when the API call fails it throws an Error whose    *)
(* message is the API's error details and writes nothing.                  *)

C27_SignInStep ==
    session' # session /\ session'.op \in {"signIn", "signIn:null", "signIn:threw"}

C27_NothingWritten ==
    /\ jar' = jar
    /\ session'.data = session.data
    /\ session'.sealed = session.sealed
    /\ session'.live = session.live

C27_SessionWritten ==
    LET decodedToken == decodeAccessToken(session'.data.token.access)
    IN  /\ decodedToken # Null
        /\ session'.data.exp = decodedToken.exp
        /\ session'.live
        /\ jar' = cookieStoreSet(session'.sealed, ExpiresOf(session'.data))
        /\ getSession(jar').value = session'.data

C27_SessionOnlyFromDecodedData ==
    [][C27_SignInStep =>
         LET answer == session'.failed.answer
         IN  CASE session'.op = "signIn" -> C27_SessionWritten
               [] session'.op = "signIn:null" ->
                     /\ answer.kind = "data"
                     /\ decodeAccessToken(answer.data.token.access) = Null
                     /\ C27_NothingWritten
               [] session'.op = "signIn:threw" ->
                     /\ answer.kind # "data"
                     /\ answer.kind = "ApiError" =>
                           session'.failed.message = JoinDetails(answer.errors)
                     /\ C27_NothingWritten]_vars

\* A session is live from one sign-in; a later sign-in was refused by the
\* API with two validation errors and the cookie is still the first one's.
C27_Witness ==
    /\ session.op = "signIn:threw"
    /\ session.failed.answer.kind = "ApiError"
    /\ session.failed.message =
          "Please enter a valid email address, Password must be at least 6 characters long"
    /\ session.live
    /\ jar # NoCookie

----------------------------------------------------------------------------
(* C30: updateSession does nothing when getSession finds no session: the   *)
(* cookie and the session are left as they were and no session comes into  *)
(* being; when getSession returns a session, the cookie written holds      *)
(* exactly updater(current), and nothing but the cookie changes.           *)

C30_UpdateStep == session'.op = "updateSession" /\ session' # session

C30_UpdateSessionStoresUpdaterResult ==
    [][C30_UpdateStep =>
         LET current == getSession(cookieStoreGet)
         IN  /\ IF current = Null
                THEN /\ jar' = jar
                     /\ session'.data = session.data
                     /\ session'.sealed = session.sealed
                     /\ session'.live = session.live
                     /\ getSession(IF jar' = NoCookie \/ (jar'.expires # InvalidDate
                                                        /\ now >= jar'.expires)
                                   THEN NoCookie ELSE jar') = Null
                ELSE /\ session'.data = Rotated(current.value)
                     /\ jar' # NoCookie
                     /\ jar'.value = session'.sealed
                     /\ jar'.expires = ExpiresOf(Rotated(current.value))
                     /\ getSession(jar') = [value |-> Rotated(current.value)]
             /\ UNCHANGED <<authVars, now, ticks, dbVars, appVars>>]_vars

\* updateSession was called after the session was purged: there is still no
\* cookie and no session.
C30_Witness ==
    /\ session.op = "updateSession"
    /\ session.purged
    /\ ~session.live
    /\ jar = NoCookie
    /\ session.data # NoSession

====
